---- MODULE Spec2Model ----
(***************************************************************************)
(* Weather ETL pipeline (Raamizkn/buluttan): quality audit, monthly        *)
(* aggregation, year-over-year delta, dimension join, SQLite load and the  *)
(* save step, modelled from src/dags/weather_utils.py and its stand-alone  *)
(* copies src/data_extraction.py, src/data_transformation.py and           *)
(* src/data_analysis.py.                                                   *)
(*                                                                         *)
(* A DataFrame is a record [cols, rows]: cols is the sequence of column    *)
(* names, rows the sequence of rows, each row a function from the column   *)
(* names to cell values.  A float cell is an exact rational <<num, den>>   *)
(* with den > 0; NaN is <<0, 0>>.  A timestamp cell is <<y, m, d, h>>.     *)
(***************************************************************************)
EXTENDS Integers, Sequences, FiniteSets, TLC

VARIABLES
    stage,          \* position of the function under execution
    weather_df,     \* join_weather_and_geonames: the caller's monthly frame
    geonames_df,    \* join_weather_and_geonames: the caller's dimension frame
    join_out,       \* join_weather_and_geonames: what the call produced
    tf_module,      \* transform_weather_data: the copy called (source module)
    raw_df,         \* transform_weather_data: the caller's combined raw frame
    transform_out,  \* transform_weather_data: what the call produced
    yoy_df,         \* calculate_yoy_delta: the caller's monthly aggregates
    yoy_out,        \* calculate_yoy_delta: what the call produced
    q_module,       \* check_data_quality: the copy called (source module)
    q_df,           \* check_data_quality: the caller's batch
    quality_out,    \* check_data_quality: what the call produced
    fs_dirs,        \* file system: the directories that exist
    fs_files,       \* file system: path -> content of the files that exist
    save_calls,     \* number of save steps run so far
    save_args,      \* save step: the payload and destination of the last call
    save_out,       \* save step: what the last call produced
    analysis_out,   \* analysis task: what run_analysis produced
    xcom_analysis,  \* analysis task: the return value stored in XCom
    db_tables,      \* relational store: database path -> table name -> table
    load_log,       \* loader: the calls made so far, oldest first
    conn_table,     \* analysis: the weather_data table behind the connection
    tie_order,      \* analysis: how the engine orders rows with equal sort keys
    query_log,      \* analysis: names of the queries executed so far, in order
    query_results,  \* analysis: query name -> result, as filled in so far
    sql_out,        \* analysis: what run_sql_queries produced
    fetch_module,   \* fetch: the copy of fetch_weather_data that is called
    fetch_args,     \* fetch: station id and year of the call
    fetch_pc,       \* fetch: "request", "sleep" or "done"
    attempt_log,    \* fetch: outcome of every request made so far
    retry_delay,    \* fetch: seconds the next sleep will last
    slept,          \* fetch: seconds of every sleep so far
    raw_files,      \* fetch: path -> batch saved under the raw data directory
    fetch_out,      \* fetch: what the call produced
    run_entry,      \* run: "dag" for the orchestrated pipeline, "script" for main()
    task_state,     \* run: task id -> state of the task in this run
    xcom_quality,   \* run: the <<station, year>> whose quality record is stored
    artifacts,      \* run: paths of the files written in this run
    branch_choice,  \* run: task id the gating step selected, "" before it ran
    raw_dir,        \* pipeline: file name -> batch file in the raw data directory
    geonames,       \* pipeline: the dimension table as load_geonames_data returns it
    pipe_tie,       \* pipeline: how the database engine orders rows that tie
    glob_order,     \* pipeline: the batch files as the last glob enumerated them
    pipe_reordered, \* pipeline: the last glob enumerated in another order than the one before
    pipe_pc,        \* pipeline: the call the driver makes next
    pipe_step,      \* pipeline: what the last call inside the driver produced
    pipe_files,     \* pipeline: path -> file written under the output directory
    pipe_db,        \* pipeline: table name -> table of the analysis database
    pipe_out,       \* pipeline: what the last driver to finish produced
    pipe_runs       \* pipeline: per finished run, its final dataset and results

joinVars == <<weather_df, geonames_df, join_out>>
transformVars == <<tf_module, raw_df, transform_out>>
yoyVars == <<yoy_df, yoy_out>>
qualityVars == <<q_module, q_df, quality_out>>
saveVars == <<fs_dirs, fs_files, save_calls, save_args, save_out, analysis_out, xcom_analysis>>
loadVars == <<db_tables, load_log>>
sqlVars == <<conn_table, tie_order, query_log, query_results, sql_out>>
runVars == <<run_entry, task_state, xcom_quality, artifacts, branch_choice>>
pipeVars ==
    <<raw_dir, geonames, pipe_tie, glob_order, pipe_reordered, pipe_pc, pipe_step,
      pipe_files, pipe_db, pipe_out, pipe_runs>>
fetchVars ==
    <<fetch_module, fetch_args, fetch_pc, attempt_log, retry_delay, slept, raw_files, fetch_out>>

-----------------------------------------------------------------------------
(* Generic helpers                                                         *)

Range(s) == {s[i] : i \in 1..Len(s)}

SeqsUpTo(S, n) == UNION {[1..k -> S] : k \in 0..n}

\* Sequences of pairwise different elements of S, of length at most n.
DistinctSeqsUpTo(S, n) ==
    {s \in SeqsUpTo(S, n) : \A i, j \in 1..Len(s) : i # j => s[i] # s[j]}

RECURSIVE GCD(_, _)
GCD(a, b) == IF b = 0 THEN a ELSE GCD(b, a % b)

Abs(x) == IF x < 0 THEN -x ELSE x

-----------------------------------------------------------------------------
(* Float cells as exact rationals                                          *)

NaN == <<0, 0>>

IsNaN(q) == q[2] = 0

\* The rational n/d in lowest terms with a positive denominator.
Rat(n, d) ==
    LET g == GCD(Abs(n), Abs(d))
        s == IF d < 0 THEN -1 ELSE 1
    IN  IF d = 0 THEN NaN ELSE <<s * (n \div g), s * (d \div g)>>

RatAdd(a, b) ==
    IF IsNaN(a) \/ IsNaN(b) THEN NaN
    ELSE LET g == GCD(a[2], b[2])
         IN  Rat(a[1] * (b[2] \div g) + b[1] * (a[2] \div g), (a[2] \div g) * b[2])

RatNeg(a) == IF IsNaN(a) THEN NaN ELSE <<-a[1], a[2]>>

RatSub(a, b) == RatAdd(a, RatNeg(b))

RatMul(a, b) ==
    IF IsNaN(a) \/ IsNaN(b) THEN NaN
    ELSE LET g1 == GCD(Abs(a[1]), b[2])
             g2 == GCD(Abs(b[1]), a[2])
         IN  Rat((a[1] \div g1) * (b[1] \div g2), (a[2] \div g2) * (b[2] \div g1))

RatDivInt(a, n) == IF IsNaN(a) \/ n = 0 THEN NaN ELSE RatMul(a, Rat(1, n))

\* Comparisons with NaN are false, as for IEEE floats.
RatLT(a, b) ==
    /\ ~IsNaN(a)
    /\ ~IsNaN(b)
    /\ LET g == GCD(a[2], b[2])
       IN  a[1] * (b[2] \div g) < b[1] * (a[2] \div g)

RatLE(a, b) == ~IsNaN(a) /\ ~IsNaN(b) /\ ~RatLT(b, a)

RatEq(a, b) == ~IsNaN(a) /\ ~IsNaN(b) /\ Rat(a[1], a[2]) = Rat(b[1], b[2])

-----------------------------------------------------------------------------
(* DataFrames                                                              *)

Frame(cols, rows) == [cols |-> cols, rows |-> rows]

EmptyFrame == Frame(<<>>, <<>>)

\* df[cols]: the columns cols, in that order.
SelectCols(df, cols) ==
    Frame(cols, [i \in 1..Len(df.rows) |-> [c \in Range(cols) |-> df.rows[i][c]]])

\* df[name] = values (one per row): replaces the column or appends it.
WithColumn(df, name, values) ==
    Frame(IF name \in Range(df.cols) THEN df.cols ELSE Append(df.cols, name),
          [i \in 1..Len(df.rows) |->
              [c \in Range(df.cols) \cup {name} |->
                  IF c = name THEN values[i] ELSE df.rows[i][c]]])

\* A column holding the same scalar in every row.
Broadcast(df, v) == [i \in 1..Len(df.rows) |-> v]

\* df.drop(name, axis=1)
DropColumn(df, name) ==
    LET keep(c) == c # name
    IN  SelectCols(df, SelectSeq(df.cols, keep))

Returned(v) == [status |-> "returned", value |-> v, error |-> ""]
Raised(e) == [status |-> "raised", value |-> EmptyFrame, error |-> e]
NotCalled == [status |-> "none", value |-> EmptyFrame, error |-> ""]

-----------------------------------------------------------------------------
(* Dimension Joiner: join_weather_and_geonames                             *)

MaxMonthly == 2     \* monthly records in the caller's frame
MaxDim == 2         \* rows of the dimension table

\* A merge that pairs a record only with the dimension rows of its own
\* station, through the station-id to climate-id mapping.
MergeOnStation(left, right, key) ==
    LET notKey(c) == c # key
        rcols == SelectSeq(right.cols, notKey)
        cols == left.cols \o rcols
        L == Len(left.rows)
        R == Len(right.rows)
        all == [k \in 1..(L * R) |-> <<((k - 1) \div R) + 1, ((k - 1) % R) + 1>>]
        sameStation(p) ==
            right.rows[p[2]]["climate_id"]
                = (IF left.rows[p[1]]["station_id"] = "26953" THEN "ABCDE" ELSE "FGHIJ")
        pairs == SelectSeq(all, sameStation)
        cell(p, c) ==
            IF c \in Range(left.cols) THEN left.rows[p[1]][c] ELSE right.rows[p[2]][c]
    IN  Frame(cols, [k \in 1..Len(pairs) |-> [c \in Range(cols) |-> cell(pairs[k], c)]])

\* pd.merge(left, right, on=key): inner join, in the order of the left rows;
\* a non-key column present on both sides gets the suffixes _x and _y.
Merge(left, right, key) ==
    LET overlap == (Range(left.cols) \cap Range(right.cols)) \ {key}
        lname(c) == IF c \in overlap THEN c \o "_x" ELSE c
        rname(c) == IF c \in overlap THEN c \o "_y" ELSE c
        notKey(c) == c # key
        rcols == SelectSeq(right.cols, notKey)
        cols == [i \in 1..Len(left.cols) |-> lname(left.cols[i])]
                    \o [i \in 1..Len(rcols) |-> rname(rcols[i])]
        L == Len(left.rows)
        R == Len(right.rows)
        all == [k \in 1..(L * R) |-> <<((k - 1) \div R) + 1, ((k - 1) % R) + 1>>]
        sameKey(p) == left.rows[p[1]][key] = right.rows[p[2]][key]
        pairs == SelectSeq(all, sameKey)
        cell(p, c) ==
            IF \E lc \in Range(left.cols) : lname(lc) = c
            THEN left.rows[p[1]][CHOOSE lc \in Range(left.cols) : lname(lc) = c]
            ELSE right.rows[p[2]][CHOOSE rc \in Range(rcols) : rname(rc) = c]
    IN  Frame(cols, [k \in 1..Len(pairs) |-> [c \in Range(cols) |-> cell(pairs[k], c)]])

final_columns_reordered ==
    << "station_name", "climate_id", "latitude", "longitude", "feature_id",
       "date_month", "map", "temperature_celsius_avg", "temperature_celsius_min",
       "temperature_celsius_max", "temperature_celsius_yoy_avg" >>

final_columns ==
    << "station_name", "climate_id", "latitude", "longitude", "date_month",
       "feature_id", "map", "temperature_celsius_avg", "temperature_celsius_min",
       "temperature_celsius_max", "temperature_celsius_yoy_avg" >>

\* weather_df['join_key'] = 1; geonames_df['join_key'] = 1 (on the caller's frames)
AddJoinKey(df) == WithColumn(df, "join_key", Broadcast(df, 1))

join_weather_and_geonames(w, g) ==
    LET combined == DropColumn(Merge(AddJoinKey(w), AddJoinKey(g), "join_key"), "join_key")
        absent(c) == c \notin Range(combined.cols)
        missing == SelectSeq(final_columns, absent)
    IN  IF missing # <<>>
        THEN Raised("Required column '" \o missing[1] \o "' not found in combined data")
        ELSE Returned(SelectCols(combined, final_columns))

\* The station-id to climate-id mapping the source declares.
station_mapping == [s \in {"26953", "31688"} |-> IF s = "26953" THEN "ABCDE" ELSE "FGHIJ"]

(* Inputs of the join.                                                     *)

DigitStr == <<"0", "1", "2", "3", "4", "5", "6", "7", "8", "9">>

Digit(d) == DigitStr[d + 1]

\* strftime('%Y-%m') of a timestamp <<y, m, d, h>>
StrfYm(ts) ==
    Digit(ts[1] \div 1000) \o Digit((ts[1] \div 100) % 10) \o Digit((ts[1] \div 10) % 10)
        \o Digit(ts[1] % 10) \o "-" \o Digit(ts[2] \div 10) \o Digit(ts[2] % 10)

MonthlyCols ==
    << "station_id", "year", "month", "temperature_celsius_avg",
       "temperature_celsius_min", "temperature_celsius_max", "date_month",
       "temperature_celsius_yoy_avg" >>

GeoCols == << "climate_id", "station_name", "feature_id", "latitude", "longitude", "map" >>

MonthlyRow(s, m) ==
    LET base == IF s = "26953" THEN 40 ELSE 70
    IN  [c \in Range(MonthlyCols) \cup {"latitude"} |->
            CASE c = "station_id" -> s
              [] c = "year" -> 2023
              [] c = "month" -> m
              [] c = "date_month" -> StrfYm(<<2023, m, 1, 0>>)
              [] c = "temperature_celsius_avg" -> Rat(base + m, 10)
              [] c = "temperature_celsius_min" -> Rat(base, 10)
              [] c = "temperature_celsius_max" -> Rat(base + 2 * m, 10)
              [] c = "temperature_celsius_yoy_avg" -> NaN
              [] OTHER -> Rat(0, 1)]

MonthlyRows == {MonthlyRow(s, m) : s \in DOMAIN station_mapping, m \in {1, 2}}

DimRow(id, name) ==
    [c \in Range(GeoCols) |->
        CASE c = "climate_id" -> id
          [] c = "station_name" -> name
          [] c = "feature_id" -> "f-" \o id
          [] c = "latitude" -> Rat(4530, 100)
          [] c = "longitude" -> Rat(-7560, 100)
          [] OTHER -> "map-" \o id]

DimRows == {DimRow("ABCDE", "Ottawa"), DimRow("FGHIJ", "Toronto"), DimRow("ABCDE", "Ottawa CDA")}

\* The monthly frame as the pipeline builds it, without the delta column
\* (joined before calculate_yoy_delta), or with a column the dimension table
\* has too.
WeatherColVariants ==
    { MonthlyCols,
      SelectSeq(MonthlyCols, LAMBDA c : c # "temperature_celsius_yoy_avg"),
      Append(MonthlyCols, "latitude") }

GeoColVariants == { GeoCols, SelectSeq(GeoCols, LAMBDA c : c # "map") }

JoinIdle ==
    /\ weather_df = EmptyFrame
    /\ geonames_df = EmptyFrame
    /\ join_out = NotCalled

JoinInputs ==
    /\ \E cols \in WeatherColVariants, rows \in DistinctSeqsUpTo(MonthlyRows, MaxMonthly) :
          weather_df = SelectCols(Frame(MonthlyCols, rows), cols)
    /\ \E cols \in GeoColVariants, rows \in DistinctSeqsUpTo(DimRows, MaxDim) :
          geonames_df = SelectCols(Frame(GeoCols, rows), cols)
    /\ join_out = NotCalled

JoinWeatherAndGeonames ==
    /\ stage = "join_call"
    /\ join_out' = join_weather_and_geonames(weather_df, geonames_df)
    /\ weather_df' = AddJoinKey(weather_df)
    /\ geonames_df' = AddJoinKey(geonames_df)
    /\ stage' = "join_done"

-----------------------------------------------------------------------------
(* Monthly Aggregator: transform_weather_data                              *)

MaxReadings == 4    \* rows of the combined raw frame

\* One-character strings "0".."9" to their values.
DigitVal(ch) == CHOOSE d \in 0..9 : Digit(d) = ch

RECURSIVE ParseInt(_)
ParseInt(str) ==
    IF Len(str) = 0 THEN 0
    ELSE 10 * ParseInt(SubSeq(str, 1, Len(str) - 1)) + DigitVal(SubSeq(str, Len(str), Len(str)))

\* Decimal digits of a natural number, as str(n) and f"{n}" give them.
RECURSIVE IntToStr(_)
IntToStr(n) == IF n < 10 THEN Digit(n) ELSE IntToStr(n \div 10) \o Digit(n % 10)

\* pd.to_datetime of 'YYYY-MM-DD' or 'YYYY-MM-DD HH:MM' (minutes are 00 in the data)
to_datetime(str) ==
    << ParseInt(SubSeq(str, 1, 4)), ParseInt(SubSeq(str, 6, 7)), ParseInt(SubSeq(str, 9, 10)),
       IF Len(str) >= 13 THEN ParseInt(SubSeq(str, 12, 13)) ELSE 0 >>

\* The first candidate name that is a column of the frame, "" when none is.
FirstPresent(candidates, cols) ==
    LET present(c) == c \in Range(cols)
        found == SelectSeq(candidates, present)
    IN  IF found = <<>> THEN "" ELSE found[1]

DatetimeCandidates == << "Date/Time (LST)", "Date/Time" >>

\* The temperature column names each copy of the function looks for.
TempCandidates(module) ==
    IF module = "data_transformation"
    THEN << "Temp (째C)", "Mean Temp (째C)" >>
    ELSE << "Temp (°C)", "Mean Temp (°C)" >>

\* Lexicographic order of digit strings (station ids).
RECURSIVE StrLT(_, _)
StrLT(a, b) ==
    IF Len(b) = 0 THEN FALSE
    ELSE IF Len(a) = 0 THEN TRUE
    ELSE LET x == DigitVal(SubSeq(a, 1, 1))
             y == DigitVal(SubSeq(b, 1, 1))
         IN  IF x # y THEN x < y
             ELSE StrLT(SubSeq(a, 2, Len(a)), SubSeq(b, 2, Len(b)))

\* Order of the group keys <<station_id, year, month>>.
KeyLT(k1, k2) ==
    \/ StrLT(k1[1], k2[1])
    \/ k1[1] = k2[1] /\ k1[2] < k2[2]
    \/ k1[1] = k2[1] /\ k1[2] = k2[2] /\ k1[3] < k2[3]

\* The keys of a set in ascending order (groupby sorts the group keys).
RECURSIVE SortedKeys(_)
SortedKeys(K) ==
    IF K = {} THEN <<>>
    ELSE LET least == CHOOSE k \in K : \A o \in K \ {k} : KeyLT(k, o)
         IN  <<least>> \o SortedKeys(K \ {least})

RECURSIVE RatSum(_)
RatSum(q) == IF q = <<>> THEN Rat(0, 1) ELSE RatAdd(q[1], RatSum(Tail(q)))

RECURSIVE RatMin(_)
RatMin(q) ==
    IF Len(q) = 1 THEN q[1]
    ELSE LET m == RatMin(Tail(q)) IN IF RatLT(m, q[1]) THEN m ELSE q[1]

RECURSIVE RatMax(_)
RatMax(q) ==
    IF Len(q) = 1 THEN q[1]
    ELSE LET m == RatMax(Tail(q)) IN IF RatLT(q[1], m) THEN m ELSE q[1]

MeanIntDiv(q) == LET t == RatSum(q) IN Rat(t[1] \div t[2], Len(q))

\* Series.mean() of a non-empty series without nulls
Mean(q) == RatDivInt(RatSum(q), Len(q))

\* The date parts with the year taken from the tag of the batch file.
WithDatePartsTagged(df, datetime_column) ==
    LET dt == [i \in 1..Len(df.rows) |-> to_datetime(df.rows[i][datetime_column])]
        d1 == WithColumn(df, "datetime", dt)
        d2 == WithColumn(d1, "year", [i \in 1..Len(dt) |-> ParseInt(df.rows[i]["data_year"])])
        d3 == WithColumn(d2, "month", [i \in 1..Len(dt) |-> dt[i][2]])
    IN  WithColumn(d3, "date_month", [i \in 1..Len(dt) |-> StrfYm(dt[i])])

\* The datetime, year, month and date_month columns the function adds to the
\* caller's frame from its resolved timestamp column.
WithDateParts(df, datetime_column) ==
    LET dt == [i \in 1..Len(df.rows) |-> to_datetime(df.rows[i][datetime_column])]
        d1 == WithColumn(df, "datetime", dt)
        d2 == WithColumn(d1, "year", [i \in 1..Len(dt) |-> dt[i][1]])
        d3 == WithColumn(d2, "month", [i \in 1..Len(dt) |-> dt[i][2]])
    IN  WithColumn(d3, "date_month", [i \in 1..Len(dt) |-> StrfYm(dt[i])])

AggregateCols ==
    << "station_id", "year", "month", "temperature_celsius_avg",
       "temperature_celsius_min", "temperature_celsius_max", "date_month" >>

\* The aggregation without the dropna before it: every row is grouped.
GroupAggregateAll(df, temp_column) ==
    LET kept == df.rows
        keyOf(r) == <<r["station_id"], r["year"], r["month"]>>
        keys == SortedKeys({keyOf(kept[i]) : i \in 1..Len(kept)})
        group(k) == LET inGroup(r) == keyOf(r) = k IN SelectSeq(kept, inGroup)
        temps(k) == [i \in 1..Len(group(k)) |-> group(k)[i][temp_column]]
        agg(k) ==
            [c \in Range(AggregateCols) |->
                CASE c = "station_id" -> k[1]
                  [] c = "year" -> k[2]
                  [] c = "month" -> k[3]
                  [] c = "temperature_celsius_avg" -> Mean(temps(k))
                  [] c = "temperature_celsius_min" -> RatMin(temps(k))
                  [] c = "temperature_celsius_max" -> RatMax(temps(k))
                  [] OTHER -> group(k)[1]["date_month"]]
    IN  Frame(AggregateCols, [i \in 1..Len(keys) |-> agg(keys[i])])

\* groupby(['station_id', 'year', 'month']).agg(mean, min, max; date_month first)
\* over the rows with a non-null temperature, then reset_index and rename.
GroupAggregate(df, temp_column) ==
    LET hasTemp(r) == ~IsNaN(r[temp_column])
        kept == SelectSeq(df.rows, hasTemp)
        keyOf(r) == <<r["station_id"], r["year"], r["month"]>>
        keys == SortedKeys({keyOf(kept[i]) : i \in 1..Len(kept)})
        group(k) == LET inGroup(r) == keyOf(r) = k IN SelectSeq(kept, inGroup)
        temps(k) == [i \in 1..Len(group(k)) |-> group(k)[i][temp_column]]
        agg(k) ==
            [c \in Range(AggregateCols) |->
                CASE c = "station_id" -> k[1]
                  [] c = "year" -> k[2]
                  [] c = "month" -> k[3]
                  [] c = "temperature_celsius_avg" -> Mean(temps(k))
                  [] c = "temperature_celsius_min" -> RatMin(temps(k))
                  [] c = "temperature_celsius_max" -> RatMax(temps(k))
                  [] OTHER -> group(k)[1]["date_month"]]
    IN  Frame(AggregateCols, [i \in 1..Len(keys) |-> agg(keys[i])])

transform_weather_data(module, df) ==
    LET datetime_column == FirstPresent(DatetimeCandidates, df.cols)
        temp_column == FirstPresent(TempCandidates(module), df.cols)
    IN  IF datetime_column = ""
        THEN Raised("Date/Time column not found in weather data")
        ELSE IF temp_column = ""
        THEN Raised("Temperature column not found in weather data")
        ELSE IF "station_id" \notin Range(df.cols)
        THEN Raised("KeyError: 'station_id'")
        ELSE Returned(GroupAggregate(WithDateParts(df, datetime_column), temp_column))

\* The caller's frame after the call: the date parts are assigned on it
\* before the temperature column is resolved.
transform_caller_frame(df) ==
    LET datetime_column == FirstPresent(DatetimeCandidates, df.cols)
    IN  IF datetime_column = "" THEN df ELSE WithDateParts(df, datetime_column)

(* Inputs of the aggregator.                                               *)

Modules == {"data_transformation", "weather_utils"}

RawCols ==
    << "Date/Time (LST)", "Date/Time", "Temp (°C)", "Mean Temp (°C)", "Temp (째C)", "station_id" >>

\* A raw reading: the timestamp and the temperature under every name a batch
\* may carry them.
Reading(station, ts, temp) ==
    [c \in Range(RawCols) |->
        CASE c \in Range(DatetimeCandidates) -> ts
          [] c = "station_id" -> station
          [] OTHER -> temp]

\* A reading of a batch that carries both names of a field: the second
\* names hold other values than the first, the timestamp of the year before
\* and a temperature ten degrees higher.
WithSecondNames(r) ==
    [r EXCEPT !["Date/Time"] = IntToStr(ParseInt(SubSeq(@, 1, 4)) - 1) \o SubSeq(@, 5, Len(@)),
              !["Mean Temp (°C)"] = IF IsNaN(@) THEN NaN ELSE RatAdd(@, Rat(10, 1))]

Readings ==
    { Reading("12345", "2023-01-01", Rat(52, 10)),
      Reading("12345", "2023-01-02", Rat(48, 10)),
      Reading("12345", "2023-02-01", Rat(61, 10)),
      Reading("12345", "2023-02-02", Rat(59, 10)),
      Reading("12345", "2023-01-02 13:00", NaN),
      Reading("12345", "2022-01-15", Rat(-35, 10)),
      Reading("0987", "2023-01-01", Rat(61, 10)) }

\* The column sets of the raw batches: the test's, the hourly and the daily
\* download, a batch whose header went through the wrong encoding, a batch
\* with both names of each field, and batches without a temperature or a
\* timestamp column.
RawColVariants ==
    { << "Date/Time", "Temp (°C)", "station_id" >>,
      << "Date/Time (LST)", "Temp (°C)", "station_id" >>,
      << "Date/Time", "Mean Temp (°C)", "station_id" >>,
      << "Date/Time", "Temp (째C)", "station_id" >>,
      << "Date/Time (LST)", "Date/Time", "Temp (°C)", "Mean Temp (°C)", "station_id" >>,
      << "Date/Time", "station_id" >>,
      << "Temp (°C)", "station_id" >> }

TransformIdle ==
    /\ tf_module = ""
    /\ raw_df = EmptyFrame
    /\ transform_out = NotCalled

TransformInputs ==
    /\ tf_module \in Modules
    /\ \E cols \in RawColVariants, rows \in DistinctSeqsUpTo(Readings, MaxReadings) :
          raw_df = SelectCols(Frame(RawCols,
                                    IF Range(DatetimeCandidates) \subseteq Range(cols)
                                    THEN [i \in 1..Len(rows) |-> WithSecondNames(rows[i])]
                                    ELSE rows),
                              cols)
    /\ transform_out = NotCalled

TransformWeatherData ==
    /\ stage = "transform_call"
    /\ transform_out' = transform_weather_data(tf_module, raw_df)
    /\ raw_df' = transform_caller_frame(raw_df)
    /\ tf_module' = tf_module
    /\ stage' = "transform_done"

-----------------------------------------------------------------------------
(* Year-over-Year Calculator: calculate_yoy_delta                          *)

MaxAggregates == 3  \* monthly aggregates in the caller's frame

\* Order of sort_values(['station_id', 'month', 'year']).
YoySortLT(r1, r2) ==
    KeyLT(<<r1["station_id"], r1["month"], r1["year"]>>,
          <<r2["station_id"], r2["month"], r2["year"]>>)

\* Stable insertion of row r into the sorted sequence s.
RECURSIVE InsertSorted(_, _)
InsertSorted(s, r) ==
    IF s = <<>> THEN <<r>>
    ELSE IF YoySortLT(r, s[Len(s)])
         THEN Append(InsertSorted(SubSeq(s, 1, Len(s) - 1), r), s[Len(s)])
         ELSE Append(s, r)

RECURSIVE SortValues(_)
SortValues(rows) ==
    IF rows = <<>> THEN <<>>
    ELSE InsertSorted(SortValues(SubSeq(rows, 1, Len(rows) - 1)), rows[Len(rows)])

\* groupby(['station_id', 'month'])[column].diff() on rows in the given order:
\* each row's value minus the value of the row before it in its group.
GroupDiff(rows, column) ==
    [i \in 1..Len(rows) |->
        LET before == {j \in 1..(i - 1) :
                          /\ rows[j]["station_id"] = rows[i]["station_id"]
                          /\ rows[j]["month"] = rows[i]["month"]}
        IN  IF before = {} THEN NaN
            ELSE LET j == CHOOSE x \in before : \A y \in before : y <= x
                 IN  RatSub(rows[i][column], rows[j][column])]

\* Series.diff() without grouping.
PlainDiff(rows, column) ==
    [i \in 1..Len(rows) |->
        IF i = 1 THEN NaN ELSE RatSub(rows[i][column], rows[i - 1][column])]

calculate_yoy_delta_ungrouped(df) ==
    LET sorted == Frame(df.cols, SortValues(df.rows))
    IN  Returned(WithColumn(sorted, "temperature_celsius_yoy_avg",
                            PlainDiff(sorted.rows, "temperature_celsius_avg")))

\* The calculator without its sort_values: the groups in the caller's order.
calculate_yoy_delta_unsorted(df) ==
    Returned(WithColumn(df, "temperature_celsius_yoy_avg",
                        GroupDiff(df.rows, "temperature_celsius_avg")))

calculate_yoy_delta(df) ==
    IF ~({"station_id", "month", "year", "temperature_celsius_avg"} \subseteq Range(df.cols))
    THEN Raised("KeyError")
    ELSE LET sorted == Frame(df.cols, SortValues(df.rows))
         IN  Returned(WithColumn(sorted, "temperature_celsius_yoy_avg",
                                 GroupDiff(sorted.rows, "temperature_celsius_avg")))

(* Inputs of the calculator.                                               *)

YoyKeys ==
    ({"12345"} \X {2021, 2022, 2023} \X {1, 2}) \cup {<<"0987", 2023, 1>>}

YoyAvgs == {Rat(40, 10), Rat(50, 10)}

\* A monthly aggregate as transform_weather_data emits it.
Aggregate(k, avg) ==
    [c \in Range(AggregateCols) |->
        CASE c = "station_id" -> k[1]
          [] c = "year" -> k[2]
          [] c = "month" -> k[3]
          [] c = "temperature_celsius_avg" -> avg
          [] c = "temperature_celsius_min" -> RatSub(avg, Rat(1, 1))
          [] c = "temperature_celsius_max" -> RatAdd(avg, Rat(1, 1))
          [] OTHER -> StrfYm(<<k[2], k[3], 1, 0>>)]

\* The aggregates of pairwise different (station, year, month), in any order,
\* with all columns or with the four columns of the test.
YoyFrames ==
    { SelectCols(Frame(AggregateCols, [i \in 1..Len(ks) |-> Aggregate(ks[i], avgs[i])]), cols) :
        <<ks, avgs>> \in { p \in DistinctSeqsUpTo(YoyKeys, MaxAggregates)
                                  \X SeqsUpTo(YoyAvgs, MaxAggregates) : Len(p[1]) = Len(p[2]) },
        cols \in { AggregateCols,
                   << "station_id", "year", "month", "temperature_celsius_avg" >> } }

YoyIdle ==
    /\ yoy_df = EmptyFrame
    /\ yoy_out = NotCalled

YoyInputs ==
    /\ yoy_df \in YoyFrames
    /\ yoy_out = NotCalled

\* result_df = df.copy(): the caller's frame is left as it is.
CalculateYoyDelta ==
    /\ stage = "yoy_call"
    /\ yoy_out' = calculate_yoy_delta(yoy_df)
    /\ yoy_df' = yoy_df
    /\ stage' = "yoy_done"

-----------------------------------------------------------------------------
(* Quality Auditor: check_data_quality                                     *)

MaxBatchRows == 4   \* rows of the audited batch

IsLeap(y) == (y % 4 = 0 /\ y % 100 # 0) \/ y % 400 = 0

DaysInMonth30(y, m) == 30

DaysInMonth(y, m) ==
    IF m = 2 THEN (IF IsLeap(y) THEN 29 ELSE 28)
    ELSE IF m \in {4, 6, 9, 11} THEN 30 ELSE 31

\* Timestamp.date(): a date is <<y, m, d>>.
DateOf(dt) == <<dt[1], dt[2], dt[3]>>

DateLT(a, b) ==
    \/ a[1] < b[1]
    \/ a[1] = b[1] /\ a[2] < b[2]
    \/ a[1] = b[1] /\ a[2] = b[2] /\ a[3] < b[3]

NextDay(d) ==
    IF d[3] < DaysInMonth(d[1], d[2]) THEN <<d[1], d[2], d[3] + 1>>
    ELSE IF d[2] < 12 THEN <<d[1], d[2] + 1, 1>>
    ELSE <<d[1] + 1, 1, 1>>

\* pd.date_range(start, end).date: every calendar day from start to end.
RECURSIVE DateRange(_, _)
DateRange(start, end) ==
    IF DateLT(end, start) THEN {} ELSE {start} \cup DateRange(NextDay(start), end)

MinDate(D) == CHOOSE d \in D : \A o \in D : ~DateLT(o, d)
MaxDate(D) == CHOOSE d \in D : \A o \in D : ~DateLT(d, o)

\* str(date): 'YYYY-MM-DD'
IsoDate(d) == StrfYm(<<d[1], d[2], d[3], 0>>) \o "-" \o Digit(d[3] \div 10) \o Digit(d[3] % 10)

\* The float columns of a raw batch; the other cells of the batches audited
\* here are strings and never null.
FloatCols == {"Temp (°C)", "Mean Temp (°C)", "Temp (째C)"}

\* df.isnull().sum(), restricted to the columns with a count > 0
NullCounts(df) ==
    LET count(c) ==
            IF c \in FloatCols
            THEN Cardinality({i \in 1..Len(df.rows) : IsNaN(df.rows[i][c])})
            ELSE 0
        nulls == {c \in Range(df.cols) : count(c) > 0}
    IN  [c \in nulls |-> count(c)]

\* The dates of the batch, and the days of their range without an observation.
BatchDates(df, datetime_column) ==
    {DateOf(to_datetime(df.rows[i][datetime_column])) : i \in 1..Len(df.rows)}

MissingDates(df, datetime_column) ==
    LET dates == BatchDates(df, datetime_column)
    IN  DateRange(MinDate(dates), MaxDate(dates)) \ dates

\* Series.mean(): NaN of an empty series (nulls are skipped).
MeanSkipNa(q) == IF q = <<>> THEN NaN ELSE Mean(q)

RECURSIVE SumSquares(_, _)
SumSquares(q, mean) ==
    IF q = <<>> THEN Rat(0, 1)
    ELSE LET d == RatSub(q[1], mean)
         IN  RatAdd(RatMul(d, d), SumSquares(Tail(q), mean))

\* The population variance (ddof = 0) in place of the sample variance.
VarPopulation(q) ==
    IF Len(q) < 2 THEN NaN
    ELSE RatDivInt(SumSquares(q, Mean(q)), Len(q))

\* Series.std() squared: the sample variance (ddof = 1), NaN below two values.
VarSkipNa(q) ==
    IF Len(q) < 2 THEN NaN
    ELSE RatDivInt(SumSquares(q, Mean(q)), Len(q) - 1)

\* The test as "not within the bounds", which a NaN operand passes.
OutsideBoundsNegated(x, mean, variance) ==
    LET d == RatSub(x, mean)
    IN  ~RatLE(RatMul(d, d), RatMul(Rat(9, 1), variance))

\* The test with bounds at two standard deviations instead of three.
OutsideBoundsTwoSigma(x, mean, variance) ==
    LET d == RatSub(x, mean)
    IN  RatLT(RatMul(Rat(4, 1), variance), RatMul(d, d))

\* x < mean - 3 * std or x > mean + 3 * std, with std the square root of
\* variance: |x - mean| > 3 * std iff (x - mean)^2 > 9 * variance.  False
\* when x, mean or variance is NaN.
OutsideBounds(x, mean, variance) ==
    LET d == RatSub(x, mean)
    IN  RatLT(RatMul(Rat(9, 1), variance), RatMul(d, d))

NonNull(df, column) ==
    LET notNull(r) == ~IsNaN(r[column])
        kept == SelectSeq(df.rows, notNull)
    IN  [i \in 1..Len(kept) |-> kept[i][column]]

OutlierCount(df, temp_column) ==
    LET temp_data == NonNull(df, temp_column)
        temp_mean == MeanSkipNa(temp_data)
        temp_var == VarSkipNa(temp_data)
    IN  Cardinality({i \in 1..Len(df.rows) :
                        OutsideBounds(df.rows[i][temp_column], temp_mean, temp_var)})

\* data_extraction.check_data_quality(df)
check_data_quality_extraction(df) ==
    LET hasDate == "Date/Time" \in Range(df.cols)
        hasTemp == "Temp (°C)" \in Range(df.cols)
        keys == {"null_counts"} \cup (IF hasDate THEN {"missing_dates"} ELSE {})
                    \cup (IF hasTemp THEN {"temperature_outliers"} ELSE {})
    IN  IF hasDate /\ df.rows = <<>>
        THEN Raised("ValueError: Neither start nor end can be NaT")
        ELSE Returned([k \in keys |->
                CASE k = "null_counts" -> NullCounts(df)
                  [] k = "missing_dates" -> MissingDates(df, "Date/Time")
                  [] OTHER -> OutlierCount(df, "Temp (°C)")])

\* weather_utils.check_data_quality(df, station_id, year)
check_data_quality(df, station_id, year) ==
    LET datetime_column == FirstPresent(DatetimeCandidates, df.cols)
        temp_column == FirstPresent(TempCandidates("weather_utils"), df.cols)
        temp_data == IF temp_column = "" THEN <<>> ELSE NonNull(df, temp_column)
    IN  IF datetime_column # "" /\ df.rows = <<>>
        THEN Raised("ValueError: Neither start nor end can be NaT")
        ELSE Returned(
                [station_id |-> station_id,
                 year |-> year,
                 record_count |-> Len(df.rows),
                 null_counts |-> NullCounts(df),
                 missing_dates |->
                     IF datetime_column = "" THEN {}
                     ELSE {IsoDate(d) : d \in MissingDates(df, datetime_column)},
                 temperature_outliers |->
                     IF temp_column # "" /\ Len(temp_data) > 0
                     THEN OutlierCount(df, temp_column)
                     ELSE 0])

\* The caller's batch after the call: the Date column is assigned on it.
quality_caller_frame(module, df) ==
    LET datetime_column ==
            IF module = "data_extraction"
            THEN FirstPresent(<<"Date/Time">>, df.cols)
            ELSE FirstPresent(DatetimeCandidates, df.cols)
    IN  IF datetime_column = "" THEN df
        ELSE WithColumn(df, "Date",
                 [i \in 1..Len(df.rows) |-> DateOf(to_datetime(df.rows[i][datetime_column]))])

(* Inputs of the auditor.                                                  *)

QualityModules == {"data_extraction", "weather_utils"}

BatchReadings ==
    { Reading("26953", "2023-01-01", Rat(52, 10)),
      Reading("26953", "2023-01-02", Rat(48, 10)),
      Reading("26953", "2023-01-03", NaN),
      Reading("26953", "2023-01-05", Rat(1000, 10)),
      Reading("26953", "2023-01-01 12:00", Rat(48, 10)),
      Reading("26953", "2023-01-30", Rat(52, 10)),
      Reading("26953", "2023-02-02", Rat(1000, 10)) }

BatchColVariants ==
    { << "Date/Time", "Temp (°C)" >>,
      << "Date/Time (LST)", "Temp (°C)" >>,
      << "Date/Time", "Mean Temp (°C)" >> }

\* Longer series of readings, one a day from 2023-01-01 on, written as
\* runs of equal temperatures: a far reading after up to ten equal ones,
\* constant series, a reading exactly three deviations above the mean
\* (nine 5.0, three 4.0 and 8.0: mean 5, deviation 1), one just beyond it,
\* and series with nulls.
RECURSIVE Repeat(_, _)
Repeat(v, n) == IF n = 0 THEN <<>> ELSE <<v>> \o Repeat(v, n - 1)

Series ==
    { Repeat(Rat(5, 1), n) \o <<far>> : n \in {1, 5, 9, 10, 11}, far \in {Rat(100, 1), Rat(-100, 1)} }
    \cup { <<Rat(100, 1)>> \o Repeat(Rat(5, 1), 10) }
    \cup { Repeat(Rat(5, 1), n) : n \in {1, 2, 11} }
    \cup { Repeat(Rat(5, 1), 9) \o Repeat(Rat(4, 1), 3) \o <<top>> : top \in {Rat(8, 1), Rat(9, 1)} }
    \cup { Repeat(NaN, n) : n \in {1, 3} }
    \cup { <<NaN>> \o Repeat(Rat(5, 1), 10) \o <<NaN, Rat(100, 1)>>,
            <<NaN, Rat(5, 1), NaN>>,
            Repeat(NaN, 2) \o Repeat(Rat(5, 1), 9) \o <<Rat(100, 1)>> }

SeriesRows(temps) ==
    [i \in 1..Len(temps) |->
        Reading("26953", "2023-01-" \o Digit(i \div 10) \o Digit(i % 10), temps[i])]

QualityIdle ==
    /\ q_module = ""
    /\ q_df = EmptyFrame
    /\ quality_out = NotCalled

QualityInputs ==
    /\ q_module \in QualityModules
    /\ \E cols \in BatchColVariants,
          rows \in DistinctSeqsUpTo(BatchReadings, MaxBatchRows)
                       \cup {SeriesRows(temps) : temps \in Series} :
          q_df = SelectCols(Frame(RawCols, rows), cols)
    /\ quality_out = NotCalled

CheckDataQuality ==
    /\ stage = "quality_call"
    /\ quality_out' =
          IF q_module = "data_extraction"
          THEN check_data_quality_extraction(q_df)
          ELSE check_data_quality(q_df, 26953, 2023)
    /\ q_df' = quality_caller_frame(q_module, q_df)
    /\ q_module' = q_module
    /\ stage' = "quality_done"

-----------------------------------------------------------------------------
(* Save step: save_analysis_results and get_analysis_results_and_save      *)

MaxSaves == 2       \* save steps in one run of the model

\* os.path.join(output_dir, output_file)
PathJoin(dir, file) == dir \o "/" \o file

\* A file written completely, and one left by a json.dump that raised.
Complete(data) == [complete |-> TRUE, data |-> data]
Truncated == [complete |-> FALSE, data |-> [error |-> "json.dump raised"]]

WriteFile(files, path, content) ==
    [q \in DOMAIN files \cup {path} |-> IF q = path THEN content ELSE files[q]]

\* ensure_dir(directory)
ensure_dir(dirs, directory) == dirs \cup {directory}

\* with open(path, 'w') as f: json.dump(data, f).  The file system after it
\* and how it ended: the open fails when the directory does not exist, the
\* dump fails (on the opened, emptied file) when a value is not serializable.
DumpJson(dirs, files, dir, path, data, serializable) ==
    IF dir \notin dirs
    THEN [dirs |-> dirs, files |-> files, error |-> "FileNotFoundError"]
    ELSE IF ~serializable
    THEN [dirs |-> dirs, files |-> WriteFile(files, path, Truncated), error |-> "TypeError"]
    ELSE [dirs |-> dirs, files |-> WriteFile(files, path, Complete(data)), error |-> ""]

\* Payload shapes: a mapping name -> value (kind "dict"), a string, None,
\* anything else.  A value of a mapping is a DataFrame (has to_dict) or a
\* plain object, JSON-serializable or not.
DictPayload(items) == [kind |-> "dict", items |-> items, text |-> ""]
StrPayload(text) == [kind |-> "str", items |-> <<>>, text |-> text]
NonePayload == [kind |-> "none", items |-> <<>>, text |-> ""]
OtherPayload(repr) == [kind |-> "other", items |-> <<>>, text |-> repr]

DataFrameValue(records) == [has_to_dict |-> TRUE, json_ok |-> TRUE, data |-> records]
PlainValue(data) == [has_to_dict |-> FALSE, json_ok |-> TRUE, data |-> data]
OpaqueValue(data) == [has_to_dict |-> FALSE, json_ok |-> FALSE, data |-> data]

\* {name: df.to_dict(orient='records') if hasattr(df, 'to_dict') else df ...}
ConvertItems(items) == [name \in DOMAIN items |-> items[name].data]

ItemsSerializable(items) == \A name \in DOMAIN items : items[name].json_ok

\* save_analysis_results(results, output_dir, output_file): the file system
\* after the call and what the call produced.
save_analysis_results(dirs, files, results, output_dir, output_file) ==
    LET output_path == PathJoin(output_dir, output_file)
        made == ensure_dir(dirs, output_dir)
        done ==
            CASE results.kind = "str" ->
                    DumpJson(dirs, files, output_dir, output_path, [raw_data |-> results.text], TRUE)
              [] results.kind = "dict" ->
                    DumpJson(made, files, output_dir, output_path,
                             ConvertItems(results.items), ItemsSerializable(results.items))
              [] results.kind = "none" ->
                    DumpJson(made, files, output_dir, output_path,
                             [error |-> "No results data available"], TRUE)
              [] OTHER ->
                    DumpJson(made, files, output_dir, output_path, [raw_data |-> results.text], TRUE)
    IN  [dirs |-> done.dirs, files |-> done.files,
         out |-> IF done.error = "" THEN Returned(output_path) ELSE Raised(done.error)]

OUTPUT_DIR == "output"

\* get_analysis_results_and_save: the value pulled from XCom is saved under
\* OUTPUT_DIR; any exception ends in the fallback artifact.
get_analysis_results_and_save(dirs, files, pulled) ==
    LET results == IF pulled.kind = "none"
                   THEN DictPayload([error |-> PlainValue("No results found in XCom")])
                   ELSE pulled
        try == save_analysis_results(dirs, files, results, OUTPUT_DIR, "analysis_results.json")
        fallback_path == PathJoin(OUTPUT_DIR, "analysis_results_fallback.json")
    IN  IF try.out.status = "returned" THEN try
        ELSE [dirs |-> ensure_dir(try.dirs, OUTPUT_DIR),
              files |-> WriteFile(try.files, fallback_path, Complete([error |-> try.out.error])),
              out |-> Returned(fallback_path)]

\* A wrapper that logs the error and raises it again: the task fails and
\* nothing is stored.
run_analysis_wrapper_reraising(analysed) ==
    IF analysed.status = "raised" THEN NonePayload
    ELSE DictPayload([name \in DOMAIN analysed.value |-> PlainValue(analysed.value[name].data)])

\* run_analysis_wrapper, given what run_analysis did: the frames as lists of
\* records, or the mapping {'error': str(e)}.
run_analysis_wrapper(analysed) ==
    IF analysed.status = "raised" THEN DictPayload([error |-> PlainValue(analysed.error)])
    ELSE DictPayload([name \in DOMAIN analysed.value |-> PlainValue(analysed.value[name].data)])

(* Inputs of the save step.                                                *)

QueryRecords == << [station_name |-> "Ottawa", year |-> "2023", avg_temperature |-> Rat(55, 10)] >>

Payloads ==
    { DictPayload([avg_temp_by_station_year |-> DataFrameValue(QueryRecords)]),
      DictPayload([avg_temp_by_station_year |-> PlainValue(QueryRecords)]),
      DictPayload([error |-> PlainValue("Input file not found")]),
      DictPayload([generated_at |-> OpaqueValue("datetime")]),
      StrPayload("{'avg_temp_by_station_year': [...]}"),
      StrPayload("{}"),
      NonePayload,
      OtherPayload("42") }

OutputDirs == {OUTPUT_DIR, "reports"}

ResultNames ==
    { "avg_temp_by_station_year", "monthly_temp_variations", "yoy_temp_change",
      "extreme_high_temps", "extreme_low_temps" }

\* What run_analysis can do: raise on a missing final dataset (the
\* transformation was skipped), raise in the loader or in a query, or return
\* the five frames, with rows or without.
RunAnalysisOutcomes ==
    { Raised("Input file not found: output/weather_station_monthly.csv"),
      Raised("EmptyDataError: No columns to parse from file"),
      Raised("DatabaseError: no such column"),
      Returned([name \in ResultNames |-> DataFrameValue(QueryRecords)]),
      Returned([name \in ResultNames |-> DataFrameValue(<<>>)]) }

NoFiles == [q \in {} |-> Truncated]

NoArgs == [entry |-> "", results |-> NonePayload, output_dir |-> ""]

SaveIdle ==
    /\ fs_dirs = {}
    /\ fs_files = NoFiles
    /\ save_calls = 0
    /\ save_args = NoArgs
    /\ save_out = NotCalled
    /\ analysis_out = NotCalled
    /\ xcom_analysis = NonePayload

SaveInputs ==
    /\ fs_dirs \in SUBSET OutputDirs
    /\ fs_files = NoFiles
    /\ save_calls = 0
    /\ save_args = NoArgs
    /\ save_out = NotCalled
    /\ analysis_out = NotCalled
    /\ xcom_analysis = NonePayload

SaveAnalysisResults ==
    /\ stage = "save"
    /\ save_calls < MaxSaves
    /\ \E results \in Payloads, output_dir \in OutputDirs :
          LET r == save_analysis_results(fs_dirs, fs_files, results, output_dir,
                                         "analysis_results.json")
          IN  /\ fs_dirs' = r.dirs
              /\ fs_files' = r.files
              /\ save_out' = r.out
              /\ save_args' = [entry |-> "save_analysis_results", results |-> results,
                               output_dir |-> output_dir]
    /\ save_calls' = save_calls + 1
    /\ stage' = stage
    /\ UNCHANGED <<analysis_out, xcom_analysis>>

GetAnalysisResultsAndSave ==
    /\ stage = "save"
    /\ save_calls < MaxSaves
    /\ \E pulled \in Payloads :
          LET r == get_analysis_results_and_save(fs_dirs, fs_files, pulled)
          IN  /\ fs_dirs' = r.dirs
              /\ fs_files' = r.files
              /\ save_out' = r.out
              /\ save_args' = [entry |-> "get_analysis_results_and_save", results |-> pulled,
                               output_dir |-> OUTPUT_DIR]
    /\ save_calls' = save_calls + 1
    /\ stage' = stage
    /\ UNCHANGED <<analysis_out, xcom_analysis>>

\* The analysis task: run_analysis_wrapper runs run_analysis and its return
\* value is stored in XCom.
RunAnalysisWrapper ==
    /\ stage = "save"
    /\ analysis_out.status = "none"
    /\ \E analysed \in RunAnalysisOutcomes :
          /\ analysis_out' = analysed
          /\ xcom_analysis' = run_analysis_wrapper(analysed)
    /\ UNCHANGED <<stage, fs_dirs, fs_files, save_calls, save_args, save_out>>

\* The save task after the analysis task succeeded:
\* get_analysis_results_and_save on ti.xcom_pull(task_ids='run_analysis').
RunSaveTask ==
    /\ stage = "save"
    /\ xcom_analysis.kind # "none"
    /\ save_calls < MaxSaves
    /\ LET r == get_analysis_results_and_save(fs_dirs, fs_files, xcom_analysis)
       IN  /\ fs_dirs' = r.dirs
           /\ fs_files' = r.files
           /\ save_out' = r.out
           /\ save_args' = [entry |-> "save_analysis_results_task", results |-> xcom_analysis,
                            output_dir |-> OUTPUT_DIR]
    /\ save_calls' = save_calls + 1
    /\ UNCHANGED <<stage, analysis_out, xcom_analysis>>

-----------------------------------------------------------------------------
(* Loader: load_data_to_sqlite                                             *)

MaxLoads == 2       \* loads in one run of the model

\* A CSV file: its header line and the text cells of its data lines.
CsvFile(header, lines) == [header |-> header, lines |-> lines]

\* Typed cells of a frame read from CSV and of a table.
IntCell(n) == [type |-> "int", text |-> "", num |-> <<n, 1>>]
FloatCell(q) == [type |-> "float", text |-> "", num |-> q]
StrCell(t) == [type |-> "str", text |-> t, num |-> NaN]
NullCell == [type |-> "null", text |-> "", num |-> NaN]

\* Texts pandas reads as missing (a subset of its default list).
NaValues == {"", "NA", "NaN", "null"}

IsDigits(t) ==
    /\ Len(t) > 0
    /\ \A i \in 1..Len(t) : SubSeq(t, i, i) \in Range(DigitStr)

\* An optional minus sign and digits.
IsInteger(t) ==
    \/ IsDigits(t)
    \/ Len(t) > 1 /\ SubSeq(t, 1, 1) = "-" /\ IsDigits(SubSeq(t, 2, Len(t)))

ParseInteger(t) ==
    IF SubSeq(t, 1, 1) = "-" THEN -ParseInt(SubSeq(t, 2, Len(t))) ELSE ParseInt(t)

DotPositions(t) ==
    {i \in 2..(Len(t) - 1) :
        /\ SubSeq(t, i, i) = "."
        /\ IsInteger(SubSeq(t, 1, i - 1))
        /\ IsDigits(SubSeq(t, i + 1, Len(t)))}

IsDecimal(t) == DotPositions(t) # {}

ParseDecimal(t) ==
    LET i == CHOOSE k \in DotPositions(t) : TRUE
        scale == 10 ^ (Len(t) - i)
        whole == ParseInt(SubSeq(t, IF SubSeq(t, 1, 1) = "-" THEN 2 ELSE 1, i - 1))
        magnitude == whole * scale + ParseInt(SubSeq(t, i + 1, Len(t)))
    IN  Rat(IF SubSeq(t, 1, 1) = "-" THEN -magnitude ELSE magnitude, scale)

\* The dtype read_csv infers for a column from its texts.
ColumnType(texts) ==
    IF \A t \in texts : IsInteger(t) THEN "int"
    ELSE IF \A t \in texts : IsInteger(t) \/ IsDecimal(t) \/ t \in NaValues THEN "float"
    ELSE "object"

ParseCell(dtype, t) ==
    IF t \in NaValues THEN FloatCell(NaN)
    ELSE IF dtype = "int" THEN IntCell(ParseInteger(t))
    ELSE IF dtype = "float"
         THEN (IF IsInteger(t) THEN FloatCell(Rat(ParseInteger(t), 1))
               ELSE FloatCell(ParseDecimal(t)))
    ELSE StrCell(t)

\* pd.read_csv(input_path) of a file with a header line
read_csv(file) ==
    LET n == Len(file.header)
        dtype(j) == ColumnType({file.lines[i][j] : i \in 1..Len(file.lines)})
        row(i) == [c \in Range(file.header) |->
                      LET j == CHOOSE k \in 1..n : file.header[k] = c
                      IN  ParseCell(dtype(j), file.lines[i][j])]
    IN  Frame(file.header, [i \in 1..Len(file.lines) |-> row(i)])

\* What a table stores for a cell of the frame: NaN becomes NULL.
SqlCell(cell) == IF cell.type = "float" /\ IsNaN(cell.num) THEN NullCell ELSE cell

SqlRows(df) == [i \in 1..Len(df.rows) |-> [c \in Range(df.cols) |-> SqlCell(df.rows[i][c])]]

\* if_exists='append': the rows are added to the table already there.
to_sql_append(tables, name, df) ==
    LET old == IF name \in DOMAIN tables THEN tables[name].rows ELSE <<>>
    IN  [t \in DOMAIN tables \cup {name} |->
            IF t = name THEN Frame(df.cols, old \o SqlRows(df)) ELSE tables[t]]

\* df.to_sql(name, conn, if_exists='replace', index=False)
to_sql(tables, name, df) ==
    [t \in DOMAIN tables \cup {name} |->
        IF t = name THEN Frame(df.cols, SqlRows(df)) ELSE tables[t]]

\* load_data_to_sqlite(input_path, db_path): the store after the call and
\* what the call produced (the connection is named by its database path).
load_data_to_sqlite(files, store, input_path, db_path) ==
    IF input_path \notin DOMAIN files
    THEN [store |-> store, out |-> Raised("FileNotFoundError")]
    ELSE IF files[input_path].header = <<>>
    THEN [store |-> store, out |-> Raised("EmptyDataError")]
    ELSE LET df == read_csv(files[input_path])
         IN  [store |-> [store EXCEPT ![db_path] = to_sql(store[db_path], "weather_data", df)],
              out |-> Returned(db_path)]

(* Inputs of the loader.                                                   *)

TestCsv ==
    CsvFile(<<"station_name", "climate_id", "date_month", "temperature_celsius_avg">>,
            << <<"Station A", "12345", "2023-01", "5.0">>,
               <<"Station A", "12345", "2023-02", "6.0">>,
               <<"Station B", "67890", "2023-01", "4.0">> >>)

JoinedCsv ==
    CsvFile(<<"station_name", "year", "temperature_celsius_avg">>,
            << <<"Ottawa", "2023", "5.5">>,
               <<"Ottawa", "2023", "5.5">>,
               <<"Ottawa", "2024", "">> >>)

HeaderOnlyCsv == CsvFile(<<"station_name", "year", "temperature_celsius_avg">>, <<>>)

ZeroByteCsv == CsvFile(<<>>, <<>>)

CsvPaths == {"test.csv", "joined.csv", "header_only.csv", "empty.csv"}

CsvFiles ==
    [q \in CsvPaths |->
        CASE q = "test.csv" -> TestCsv
          [] q = "joined.csv" -> JoinedCsv
          [] q = "header_only.csv" -> HeaderOnlyCsv
          [] OTHER -> ZeroByteCsv]

InputPaths == CsvPaths \cup {"missing.csv"}

DbPaths == {"weather.db", "test.db"}

\* What a database may hold before a run: nothing, the table of an earlier
\* run, and that table next to another one.
OldTable ==
    Frame(<<"station_name", "year">>,
          << [c \in {"station_name", "year"} |->
                 IF c = "year" THEN IntCell(2019) ELSE StrCell("Old Station")] >>)

RunLogTable == Frame(<<"run">>, << [c \in {"run"} |-> IntCell(1)] >>)

NoTables == [t \in {} |-> EmptyFrame]

PriorTables ==
    { NoTables,
      [t \in {"weather_data"} |-> OldTable],
      [t \in {"weather_data", "run_log"} |-> IF t = "run_log" THEN RunLogTable ELSE OldTable] }

LoadIdle ==
    /\ db_tables = [d \in DbPaths |-> NoTables]
    /\ load_log = <<>>

LoadInputs ==
    /\ db_tables \in [DbPaths -> PriorTables]
    /\ load_log = <<>>

LoadDataToSqlite ==
    /\ stage = "load"
    /\ Len(load_log) < MaxLoads
    /\ \E input_path \in InputPaths, db_path \in DbPaths :
          LET r == load_data_to_sqlite(CsvFiles, db_tables, input_path, db_path)
          IN  /\ db_tables' = r.store
              /\ load_log' = Append(load_log, [input_path |-> input_path, db_path |-> db_path,
                                                before |-> db_tables[db_path], out |-> r.out])
    /\ stage' = stage

-----------------------------------------------------------------------------
(* Analysis: run_sql_queries                                               *)

MaxTableRows == 11      \* rows of the weather_data table

ExtremeLimit == 10      \* LIMIT 10 of queries 4 and 5

\* Characters of the text cells, in code-point order (BINARY collation).
Alphabet == " -0123456789ABCDOSTainortw"

CharRank(ch) == CHOOSE i \in 1..Len(Alphabet) : SubSeq(Alphabet, i, i) = ch

RECURSIVE TextLT(_, _)
TextLT(a, b) ==
    IF Len(b) = 0 THEN FALSE
    ELSE IF Len(a) = 0 THEN TRUE
    ELSE LET x == CharRank(SubSeq(a, 1, 1))
             y == CharRank(SubSeq(b, 1, 1))
         IN  IF x # y THEN x < y
             ELSE TextLT(SubSeq(a, 2, Len(a)), SubSeq(b, 2, Len(b)))

IsNull(cell) == cell.type = "null"

\* The order of ORDER BY on numeric cells: NULL sorts before every value.
SqlLT(a, b) ==
    IF IsNull(b) THEN FALSE
    ELSE IF IsNull(a) THEN TRUE
    ELSE RatLT(a.num, b.num)

\* a - b, NULL when an operand is NULL
SqlSub(a, b) == IF IsNull(a) \/ IsNull(b) THEN NullCell ELSE FloatCell(RatSub(a.num, b.num))

\* round(x, 2): to hundredths, halves away from zero
Round2(q) ==
    LET n == Abs(q[1]) * 100
        r == (2 * n + q[2]) \div (2 * q[2])
    IN  Rat((IF q[1] < 0 THEN -1 ELSE 1) * r, 100)

\* substr(X, Y, Z)
substr(text, from, len) == SubSeq(text, from, from + len - 1)

\* Group keys <<station_name, part>> in the order of ORDER BY station_name, part.
GroupKeyLT(k1, k2) == TextLT(k1[1], k2[1]) \/ (k1[1] = k2[1] /\ TextLT(k1[2], k2[2]))

RECURSIVE SortedGroupKeys(_)
SortedGroupKeys(K) ==
    IF K = {} THEN <<>>
    ELSE LET least == CHOOSE k \in K : \A o \in K \ {k} : GroupKeyLT(k, o)
         IN  <<least>> \o SortedGroupKeys(K \ {least})

\* SELECT station_name, substr(date_month, from, len) as part,
\*        round(avg(value), 2) as value_name
\* ... GROUP BY station_name, part ORDER BY station_name, part
\* over the given rows, values[i] being the averaged expression on row i.
GroupedAverage(rows, values, from, len, part_name, value_name) ==
    LET key(i) == << rows[i]["station_name"].text, substr(rows[i]["date_month"].text, from, len) >>
        sorted == SortedGroupKeys({key(i) : i \in 1..Len(rows)})
        avgOf(k) ==
            LET counted(i) == key(i) = k /\ ~IsNull(values[i])
                members == SelectSeq([i \in 1..Len(rows) |-> i], counted)
            IN  IF members = <<>> THEN NullCell
                ELSE FloatCell(Round2(Mean([j \in 1..Len(members) |-> values[members[j]].num])))
    IN  Frame(<<"station_name", part_name, value_name>>,
              [j \in 1..Len(sorted) |->
                  [c \in {"station_name", part_name, value_name} |->
                      CASE c = "station_name" -> StrCell(sorted[j][1])
                        [] c = part_name -> StrCell(sorted[j][2])
                        [] OTHER -> avgOf(sorted[j])]])

\* Insertion of row r (the next in table order) into rows already ordered by
\* the column.  Rows with equal keys keep table order under "rowid" and take
\* the reverse under "reverse": the engine leaves their order unspecified.
RECURSIVE InsertOrdered(_, _, _, _, _)
InsertOrdered(s, r, column, descending, tie) ==
    IF s = <<>> THEN <<r>>
    ELSE LET last == s[Len(s)]
             before == IF descending THEN SqlLT(last[column], r[column])
                       ELSE SqlLT(r[column], last[column])
             after == IF descending THEN SqlLT(r[column], last[column])
                      ELSE SqlLT(last[column], r[column])
         IN  IF before \/ (tie = "reverse" /\ ~after)
             THEN Append(InsertOrdered(SubSeq(s, 1, Len(s) - 1), r, column, descending, tie), last)
             ELSE Append(s, r)

RECURSIVE OrderBy(_, _, _, _)
OrderBy(rows, column, descending, tie) ==
    IF rows = <<>> THEN <<>>
    ELSE InsertOrdered(OrderBy(SubSeq(rows, 1, Len(rows) - 1), column, descending, tie),
                       rows[Len(rows)], column, descending, tie)

LimitNone(rows, n) == rows

\* LIMIT n
Limit(rows, n) == IF Len(rows) <= n THEN rows ELSE SubSeq(rows, 1, n)

\* SELECT station_name, date_month, column as alias ... ORDER BY column ... LIMIT 10
ExtremeQuery(table, column, alias, descending, tie) ==
    LET picked == Limit(OrderBy(table.rows, column, descending, tie), ExtremeLimit)
    IN  Frame(<<"station_name", "date_month", alias>>,
              [j \in 1..Len(picked) |->
                  [c \in {"station_name", "date_month", alias} |->
                      IF c = alias THEN picked[j][column] ELSE picked[j][c]]])

QueryNamesReversed ==
    << "extreme_low_temps", "extreme_high_temps", "yoy_temp_change",
       "monthly_temp_variations", "avg_temp_by_station_year" >>

\* The queries in the order run_sql_queries executes them.
QueryNames ==
    << "avg_temp_by_station_year", "monthly_temp_variations", "yoy_temp_change",
       "extreme_high_temps", "extreme_low_temps" >>

\* The columns of weather_data a query reads.
QueryColumns(name) ==
    CASE name = "avg_temp_by_station_year" -> {"station_name", "date_month", "temperature_celsius_avg"}
      [] name = "monthly_temp_variations" ->
            {"station_name", "date_month", "temperature_celsius_max", "temperature_celsius_min"}
      [] name = "yoy_temp_change" -> {"station_name", "date_month", "temperature_celsius_yoy_avg"}
      [] name = "extreme_high_temps" -> {"station_name", "date_month", "temperature_celsius_max"}
      [] OTHER -> {"station_name", "date_month", "temperature_celsius_min"}

\* The queries with the third one lacking its WHERE clause.
read_sql_query_unfiltered(name, table, tie) ==
    LET n == Len(table.rows)
    IN  CASE name = "avg_temp_by_station_year" ->
                GroupedAverage(table.rows,
                               [i \in 1..n |-> table.rows[i]["temperature_celsius_avg"]],
                               1, 4, "year", "avg_temperature")
          [] name = "monthly_temp_variations" ->
                GroupedAverage(table.rows,
                               [i \in 1..n |-> SqlSub(table.rows[i]["temperature_celsius_max"],
                                                      table.rows[i]["temperature_celsius_min"])],
                               6, 2, "month", "avg_daily_variation")
          [] name = "yoy_temp_change" ->
                GroupedAverage(table.rows,
                               [i \in 1..n |-> table.rows[i]["temperature_celsius_yoy_avg"]],
                               6, 2, "month", "avg_yoy_change")
          [] name = "extreme_high_temps" ->
                ExtremeQuery(table, "temperature_celsius_max", "max_temperature", TRUE, tie)
          [] OTHER ->
                ExtremeQuery(table, "temperature_celsius_min", "min_temperature", FALSE, tie)

\* pd.read_sql_query(query, conn) for the query of that name
read_sql_query(name, table, tie) ==
    LET n == Len(table.rows)
        notNull(r) == ~IsNull(r["temperature_celsius_yoy_avg"])
        changed == SelectSeq(table.rows, notNull)
    IN  CASE name = "avg_temp_by_station_year" ->
                GroupedAverage(table.rows,
                               [i \in 1..n |-> table.rows[i]["temperature_celsius_avg"]],
                               1, 4, "year", "avg_temperature")
          [] name = "monthly_temp_variations" ->
                GroupedAverage(table.rows,
                               [i \in 1..n |-> SqlSub(table.rows[i]["temperature_celsius_max"],
                                                      table.rows[i]["temperature_celsius_min"])],
                               6, 2, "month", "avg_daily_variation")
          [] name = "yoy_temp_change" ->
                GroupedAverage(changed,
                               [i \in 1..Len(changed) |-> changed[i]["temperature_celsius_yoy_avg"]],
                               6, 2, "month", "avg_yoy_change")
          [] name = "extreme_high_temps" ->
                ExtremeQuery(table, "temperature_celsius_max", "max_temperature", TRUE, tie)
          [] OTHER ->
                ExtremeQuery(table, "temperature_celsius_min", "min_temperature", FALSE, tie)

(* Inputs of the analysis.                                                 *)

StationNames == <<"Station A", "Station B">>

TablePatterns == {"rising", "falling", "tied", "nulls"}

\* The temperature of row i under a pattern, in tenths of a degree.
PatternTemp(pattern, i) ==
    CASE pattern = "rising" -> FloatCell(Rat(10 * i + 5, 10))
      [] pattern = "falling" -> FloatCell(Rat(305 - 15 * i, 10))
      [] pattern = "tied" -> FloatCell(Rat(10 * (i \div 3), 10))
      [] OTHER -> IF i % 3 = 0 THEN NullCell ELSE FloatCell(Rat(((7 * i) % 5) * 25 - 40, 10))

\* Row i of a table of the final dataset: the stations alternate, the months
\* run over 2022-01 .. 2023-03.
TableRow(pattern, i) ==
    LET idx == (i - 1) \div 2
        year == 2022 + (idx \div 3)
        mid == PatternTemp(pattern, i)
    IN  [c \in Range(final_columns) |->
            CASE c = "station_name" -> StrCell(StationNames[(i % 2) + 1])
              [] c = "date_month" -> StrCell(StrfYm(<<year, (idx % 3) + 1>>))
              [] c = "temperature_celsius_avg" -> mid
              [] c = "temperature_celsius_max" ->
                    IF IsNull(mid) THEN NullCell ELSE FloatCell(RatAdd(mid.num, Rat(i % 4, 1)))
              [] c = "temperature_celsius_min" ->
                    IF IsNull(mid) THEN NullCell ELSE FloatCell(RatSub(mid.num, Rat((i + 1) % 3, 1)))
              [] c = "temperature_celsius_yoy_avg" ->
                    IF year = 2022 \/ IsNull(mid) THEN NullCell ELSE FloatCell(Rat(2 * i - 15, 8))
              [] c = "climate_id" -> StrCell(IF i % 2 = 0 THEN "ABCDE" ELSE "FGHIJ")
              [] OTHER -> NullCell]

\* A table of the final dataset, and one with the columns of the loader
\* test's file, which has no minimum, maximum or year-over-year column.
FinalTable(pattern, n) == Frame(final_columns, [i \in 1..n |-> TableRow(pattern, i)])

NarrowColumns == <<"station_name", "climate_id", "date_month", "temperature_celsius_avg">>

NarrowTable(pattern, n) == SelectCols(FinalTable(pattern, n), NarrowColumns)

\* Row i of a table with several years for a station and month: the first
\* eight rows are of Station A, the months alternate between 01 and 02 from
\* 2021 on, and the year-over-year column is NULL in 2021 and on every
\* fifth row.
DeltaRow(i) ==
    LET year == 2021 + ((i - 1) \div 2)
    IN  [TableRow("rising", i) EXCEPT
            !["station_name"] = StrCell(StationNames[IF i <= 8 THEN 1 ELSE 2]),
            !["date_month"] = StrCell(StrfYm(<<year, ((i - 1) % 2) + 1>>)),
            !["temperature_celsius_yoy_avg"] =
                IF year = 2021 \/ i % 5 = 0 THEN NullCell ELSE FloatCell(Rat(2 * i - 15, 8))]

DeltaTable(n) == Frame(final_columns, [i \in 1..n |-> DeltaRow(i)])

Tables ==
    {FinalTable(pattern, n) : pattern \in TablePatterns, n \in 0..MaxTableRows}
        \cup {NarrowTable("rising", n) : n \in 0..2}
        \cup {DeltaTable(n) : n \in 1..MaxTableRows}

TieOrders == {"rowid", "reverse"}

NoResults == [name \in {} |-> EmptyFrame]

SqlIdle ==
    /\ conn_table = EmptyFrame
    /\ tie_order = "rowid"
    /\ query_log = <<>>
    /\ query_results = NoResults
    /\ sql_out = NotCalled

SqlInputs ==
    /\ conn_table \in Tables
    /\ tie_order \in TieOrders
    /\ query_log = <<>>
    /\ query_results = NoResults
    /\ sql_out = NotCalled

\* One statement of run_sql_queries: the next query is executed and its
\* result stored under its name; a query on a missing column raises.
RunQuery ==
    /\ stage = "analysis"
    /\ sql_out = NotCalled
    /\ Len(query_log) < Len(QueryNames)
    /\ LET name == QueryNames[Len(query_log) + 1]
       IN  /\ query_log' = Append(query_log, name)
           /\ IF QueryColumns(name) \subseteq Range(conn_table.cols)
              THEN /\ query_results' =
                        [q \in DOMAIN query_results \cup {name} |->
                            IF q = name THEN read_sql_query(name, conn_table, tie_order)
                            ELSE query_results[q]]
                   /\ sql_out' = sql_out
              ELSE /\ query_results' = query_results
                   /\ sql_out' = Raised("DatabaseError: no such column")
    /\ UNCHANGED <<stage, conn_table, tie_order>>

\* return query_results
ReturnQueryResults ==
    /\ stage = "analysis"
    /\ sql_out = NotCalled
    /\ Len(query_log) = Len(QueryNames)
    /\ sql_out' = Returned(query_results)
    /\ UNCHANGED <<stage, conn_table, tie_order, query_log, query_results>>

-----------------------------------------------------------------------------
(* Extraction: fetch_weather_data                                          *)

max_retries == 3

initial_retry_delay == 2

RAW_DATA_DIR == "raw_data"

\* f"{output_dir}/station_{station_id}_{year}.csv"
BatchFile(output_dir, station_id, year) ==
    output_dir \o "/station_" \o IntToStr(station_id) \o "_" \o IntToStr(year) \o ".csv"

NextDelaySame(delay) == delay

\* retry_delay *= 2
NextDelay(delay) == delay * 2

\* What the body of the try does with a response that arrived with a good
\* status: the batch is parsed and, in weather_utils, audited and saved.
\* body is the parsed batch, or "" in cols when the text cannot be parsed.
FetchedBatch(module, body, station_id, year, files) ==
    LET quality == check_data_quality(body, station_id, year)
        output_file == BatchFile(RAW_DATA_DIR, station_id, year)
    IN  IF module = "data_extraction"
        THEN [files |-> files,
              out |-> Returned([batch |-> body, output_file |-> "", quality |-> <<>>])]
        ELSE IF quality.status = "raised"
        THEN [files |-> files, out |-> quality]
        ELSE [files |-> WriteFile(files, output_file, quality_caller_frame(module, body)),
              out |-> Returned([batch |-> body, output_file |-> output_file,
                                quality |-> quality.value])]

(* Inputs of the fetch.                                                    *)

DEFAULT_STATIONS == {26953, 31688}

DEFAULT_YEARS == {2023, 2024}

\* Outcomes of one requests.get + raise_for_status + read_csv: a good
\* response with a batch, a RequestException, a response that does not parse.
RequestOutcomes == {"ok", "request_error", "parse_error"}

HourlyBatch ==
    SelectCols(Frame(RawCols, << Reading("26953", "2023-01-01 00:00", Rat(52, 10)),
                                 Reading("26953", "2023-01-01 01:00", Rat(48, 10)) >>),
               <<"Date/Time", "Temp (°C)">>)

ResponseBatches == {HourlyBatch, Frame(<<"Date/Time", "Temp (°C)">>, <<>>)}

NoRawFiles == [q \in {} |-> EmptyFrame]

FetchIdle ==
    /\ fetch_module = ""
    /\ fetch_args = [station_id |-> 0, year |-> 0]
    /\ fetch_pc = "done"
    /\ attempt_log = <<>>
    /\ retry_delay = initial_retry_delay
    /\ slept = <<>>
    /\ raw_files = NoRawFiles
    /\ fetch_out = NotCalled

FetchInputs ==
    /\ fetch_module \in QualityModules
    /\ fetch_args \in [station_id : DEFAULT_STATIONS, year : DEFAULT_YEARS]
    /\ fetch_pc = "request"
    /\ attempt_log = <<>>
    /\ retry_delay = initial_retry_delay
    /\ slept = <<>>
    /\ raw_files = NoRawFiles
    /\ fetch_out = NotCalled

\* One pass of the loop body: the request and what follows it in the try,
\* or the except clause up to the sleep or the raise.
SendRequest ==
    /\ stage = "fetch"
    /\ fetch_pc = "request"
    /\ Len(attempt_log) < max_retries
    /\ \E outcome \in RequestOutcomes, body \in ResponseBatches :
          LET attempt == Len(attempt_log)
              done == FetchedBatch(fetch_module, body, fetch_args.station_id, fetch_args.year,
                                   raw_files)
          IN  /\ attempt_log' = Append(attempt_log, outcome)
              /\ CASE outcome = "ok" ->
                        /\ raw_files' = done.files
                        /\ fetch_out' = done.out
                        /\ fetch_pc' = "done"
                   [] outcome = "parse_error" ->
                        /\ raw_files' = raw_files
                        /\ fetch_out' = Raised("ParserError")
                        /\ fetch_pc' = "done"
                   [] OTHER ->
                        /\ raw_files' = raw_files
                        /\ IF attempt < max_retries - 1
                           THEN fetch_out' = fetch_out /\ fetch_pc' = "sleep"
                           ELSE fetch_out' = Raised("RequestException") /\ fetch_pc' = "done"
    /\ UNCHANGED <<stage, fetch_module, fetch_args, retry_delay, slept>>

\* time.sleep(retry_delay); retry_delay *= 2
Sleep ==
    /\ stage = "fetch"
    /\ fetch_pc = "sleep"
    /\ slept' = Append(slept, retry_delay)
    /\ retry_delay' = NextDelay(retry_delay)
    /\ fetch_pc' = "request"
    /\ UNCHANGED <<stage, fetch_module, fetch_args, attempt_log, raw_files, fetch_out>>

-----------------------------------------------------------------------------
(* The orchestrated run (weather_etl_dag) and the extraction script (main)  *)

\* task_id = f'extract_station_{station_id}_{year}'
ExtractTask(station_id, year) ==
    "extract_station_" \o IntToStr(station_id) \o "_" \o IntToStr(year)

StationYears == DEFAULT_STATIONS \X DEFAULT_YEARS

ExtractionTasks == {ExtractTask(sy[1], sy[2]) : sy \in StationYears}

StationYearOf(task) == CHOOSE sy \in StationYears : ExtractTask(sy[1], sy[2]) = task

DagTasks ==
    ExtractionTasks \cup
        {"start_pipeline", "check_extractions_completed", "check_data_quality",
         "run_transformation", "skip_transformation", "run_analysis",
         "save_analysis_results", "end_pipeline"}

\* start >> extraction_tasks >> quality_sensor >> quality_branch
\* quality_branch >> transform_task >> analysis_task
\* quality_branch >> skip_transform >> analysis_task
\* analysis_task >> save_results_task >> end
Upstream(task) ==
    CASE task = "start_pipeline" -> {}
      [] task \in ExtractionTasks -> {"start_pipeline"}
      [] task = "check_extractions_completed" -> ExtractionTasks
      [] task = "check_data_quality" -> {"check_extractions_completed"}
      [] task = "run_transformation" -> {"check_data_quality"}
      [] task = "skip_transformation" -> {"check_data_quality"}
      [] task = "run_analysis" -> {"run_transformation", "skip_transformation"}
      [] task = "save_analysis_results" -> {"run_analysis"}
      [] OTHER -> {"save_analysis_results"}

\* trigger_rule of the operator: ONE_SUCCESS where given, else the default.
TriggerRule(task) ==
    IF task \in {"run_analysis", "end_pipeline"} THEN "one_success" ELSE "all_success"

FinishedStates == {"success", "failed", "upstream_failed", "skipped"}

UpstreamStates(task) == {task_state[u] : u \in Upstream(task)}

\* The scheduler's verdict on a task that has not run: "run", "wait", or
\* the state it is given without running.
Verdict(task) ==
    LET ups == UpstreamStates(task)
        finished == ups \subseteq FinishedStates
    IN  CASE TriggerRule(task) = "all_success" ->
                IF ups \subseteq {"success"} THEN "run"
                ELSE IF ups \cap {"failed", "upstream_failed"} # {} THEN "upstream_failed"
                ELSE IF "skipped" \in ups THEN "skipped"
                ELSE "wait"
          [] TriggerRule(task) = "one_success" ->
                IF "success" \in ups THEN "run"
                ELSE IF ~finished THEN "wait"
                ELSE IF ups \subseteq {"skipped"} THEN "skipped"
                ELSE "upstream_failed"
          [] OTHER -> IF finished THEN "run" ELSE "wait"

QualityReportFile(dir) == dir \o "/data_quality_report.json"

FinalDatasetFile == OUTPUT_DIR \o "/weather_station_monthly.csv"

AnalysisResultsFile == OUTPUT_DIR \o "/analysis_results.json"

RawBatchFile(task) == BatchFile(RAW_DATA_DIR, StationYearOf(task)[1], StationYearOf(task)[2])

RunIdle ==
    /\ run_entry = ""
    /\ task_state = [t \in DagTasks |-> "none"]
    /\ xcom_quality = {}
    /\ artifacts = {}
    /\ branch_choice = ""

RunInputs ==
    /\ run_entry \in {"dag", "script"}
    /\ task_state = [t \in DagTasks |-> "none"]
    /\ xcom_quality = {}
    /\ artifacts = {}
    /\ branch_choice = ""

\* fetch_station_data of one extraction task: the batch is fetched, audited
\* and saved and its quality record stored, or the fetch raised on every try
\* of the task.
RunExtraction ==
    /\ stage = "run" /\ run_entry = "dag"
    /\ \E task \in ExtractionTasks, outcome \in {"success", "failed"} :
          /\ task_state[task] = "none"
          /\ Verdict(task) = "run"
          /\ task_state' = [task_state EXCEPT ![task] = outcome]
          /\ IF outcome = "success"
             THEN /\ artifacts' = artifacts \cup {RawBatchFile(task)}
                  /\ xcom_quality' = xcom_quality \cup {StationYearOf(task)}
             ELSE UNCHANGED <<artifacts, xcom_quality>>
    /\ UNCHANGED <<stage, run_entry, branch_choice>>

\* The decision turned round: transformation when nothing is stored.
check_data_quality_inverted(records) ==
    IF records = {} THEN "run_transformation" ELSE "skip_transformation"

\* check_data_quality of the DAG on the quality records pulled from XCom:
\* the task id the branch operator is to follow.
check_data_quality_branch(records) ==
    IF records = {} THEN "skip_transformation" ELSE "run_transformation"

\* check_extractions under the sensor: with a stored quality record the
\* report is saved and the sensor succeeds, without one it pokes until its
\* timeout and fails.
RunSensor ==
    /\ stage = "run" /\ run_entry = "dag"
    /\ task_state["check_extractions_completed"] = "none"
    /\ Verdict("check_extractions_completed") = "run"
    /\ IF xcom_quality # {}
       THEN /\ artifacts' = artifacts \cup {QualityReportFile(RAW_DATA_DIR)}
            /\ task_state' = [task_state EXCEPT !["check_extractions_completed"] = "success"]
       ELSE /\ artifacts' = artifacts
            /\ task_state' = [task_state EXCEPT !["check_extractions_completed"] = "failed"]
    /\ UNCHANGED <<stage, run_entry, xcom_quality, branch_choice>>

\* check_data_quality under the branch operator: the task it names is
\* followed, the other one downstream of it is skipped.
RunBranch ==
    /\ stage = "run" /\ run_entry = "dag"
    /\ task_state["check_data_quality"] = "none"
    /\ Verdict("check_data_quality") = "run"
    /\ LET chosen == check_data_quality_branch(xcom_quality)
           other == IF chosen = "run_transformation" THEN "skip_transformation"
                    ELSE "run_transformation"
       IN  /\ branch_choice' = chosen
           /\ task_state' = [task_state EXCEPT !["check_data_quality"] = "success",
                                                ![other] = "skipped"]
    /\ UNCHANGED <<stage, run_entry, xcom_quality, artifacts>>

\* run_transformation_pipeline as a task: it writes the final dataset or raises.
RunTransformation ==
    /\ stage = "run" /\ run_entry = "dag"
    /\ task_state["run_transformation"] = "none"
    /\ Verdict("run_transformation") = "run"
    /\ \E outcome \in {"success", "failed"} :
          /\ task_state' = [task_state EXCEPT !["run_transformation"] = outcome]
          /\ artifacts' = IF outcome = "success" THEN artifacts \cup {FinalDatasetFile}
                          ELSE artifacts
    /\ UNCHANGED <<stage, run_entry, xcom_quality, branch_choice>>

\* The tasks that cannot fail: the dummy operators, run_analysis_wrapper,
\* which returns a mapping whatever happens, and the save step, which ends in
\* an artifact whatever happens.
RunPlainTask ==
    /\ stage = "run" /\ run_entry = "dag"
    /\ \E task \in {"start_pipeline", "skip_transformation", "run_analysis",
                    "save_analysis_results", "end_pipeline"} :
          /\ task_state[task] = "none"
          /\ Verdict(task) = "run"
          /\ task_state' = [task_state EXCEPT ![task] = "success"]
          /\ artifacts' = IF task = "save_analysis_results"
                          THEN artifacts \cup {AnalysisResultsFile}
                          ELSE artifacts
    /\ UNCHANGED <<stage, run_entry, xcom_quality, branch_choice>>

\* The scheduler gives a task whose trigger rule can no longer be met its
\* state without running it.
PassOver ==
    /\ stage = "run" /\ run_entry = "dag"
    /\ \E task \in DagTasks :
          /\ task_state[task] = "none"
          /\ Verdict(task) \in {"upstream_failed", "skipped"}
          /\ task_state' = [task_state EXCEPT ![task] = Verdict(task)]
    /\ UNCHANGED <<stage, run_entry, xcom_quality, artifacts, branch_choice>>

\* The (station, year) pairs in the order main() loops over them.
ScriptOrder == << <<26953, 2023>>, <<26953, 2024>>, <<31688, 2023>>, <<31688, 2024>> >>

ScriptPending == {i \in 1..Len(ScriptOrder) :
                     task_state[ExtractTask(ScriptOrder[i][1], ScriptOrder[i][2])] = "none"}

\* One iteration of main(): the batch is fetched, saved and audited, or the
\* exception is caught and logged.
ScriptIteration ==
    /\ stage = "run" /\ run_entry = "script"
    /\ ScriptPending # {}
    /\ LET i == CHOOSE k \in ScriptPending : \A o \in ScriptPending : k <= o
           task == ExtractTask(ScriptOrder[i][1], ScriptOrder[i][2])
       IN  \E outcome \in {"success", "failed"} :
              /\ task_state' = [task_state EXCEPT ![task] = outcome]
              /\ IF outcome = "success"
                 THEN /\ artifacts' = artifacts \cup {RawBatchFile(task)}
                      /\ xcom_quality' = xcom_quality \cup {ScriptOrder[i]}
                 ELSE UNCHANGED <<artifacts, xcom_quality>>
    /\ UNCHANGED <<stage, run_entry, branch_choice>>

\* pd.DataFrame(all_quality_results).to_json(quality_file) after the loops
ScriptSaveReport ==
    /\ stage = "run" /\ run_entry = "script"
    /\ ScriptPending = {}
    /\ QualityReportFile(RAW_DATA_DIR) \notin artifacts
    /\ artifacts' = artifacts \cup {QualityReportFile(RAW_DATA_DIR)}
    /\ UNCHANGED <<stage, run_entry, task_state, xcom_quality, branch_choice>>

-----------------------------------------------------------------------------
(* Batch loading and the two pipeline drivers                               *)
(* load_weather_data, run_transformation_pipeline, run_analysis             *)

MaxBatchFiles == 3      \* batch files in the raw data directory
MaxRuns == 2            \* runs of the pipeline on the same inputs

\* s.split(sep) for a one-character separator
RECURSIVE SplitOn(_, _)
SplitOn(text, sep) ==
    LET at == {i \in 1..Len(text) : SubSeq(text, i, i) = sep}
    IN  IF at = {} THEN <<text>>
        ELSE LET i == CHOOSE k \in at : \A o \in at : k <= o
             IN  <<SubSeq(text, 1, i - 1)>> \o SplitOn(SubSeq(text, i + 1, Len(text)), sep)

\* filename.replace(".csv", "") for a name that ends in .csv
WithoutCsv(filename) == SubSeq(filename, 1, Len(filename) - 4)

\* pd.read_csv raises on a file without a header line (EmptyDataError) and on
\* a data line with more fields than the lines before it (ParserError).
read_csv_raises(file) ==
    \/ file.header = <<>>
    \/ \E i \in 2..Len(file.lines) :
          Len(file.lines[1]) = Len(file.header) /\ Len(file.lines[i]) > Len(file.header)

\* The values pandas holds for the cells read: text, or a number (NaN when missing).
PandasValue(cell) == IF cell.type = "str" THEN cell.text ELSE cell.num

PandasFrame(typed) ==
    Frame(typed.cols,
          [i \in 1..Len(typed.rows) |-> [c \in Range(typed.cols) |-> PandasValue(typed.rows[i][c])]])

\* One pass of the loop of load_weather_data: the frame appended to
\* all_data, or ok = FALSE when the except clause was taken.
LoadBatch(filename, file) ==
    LET parts == SplitOn(WithoutCsv(filename), "_")
    IN  IF Len(parts) < 3 \/ read_csv_raises(file)
        THEN [ok |-> FALSE, df |-> EmptyFrame]
        ELSE LET df == PandasFrame(read_csv(file))
                 tagged == WithColumn(df, "station_id", Broadcast(df, parts[2]))
             IN  [ok |-> TRUE, df |-> WithColumn(tagged, "data_year", Broadcast(tagged, parts[3]))]

\* pd.concat([a, b], ignore_index=True): the columns of a, then the new ones
\* of b; the rows of a, then those of b; NaN where a frame has no such column.
Concat2(a, b) ==
    LET isNew(c) == c \notin Range(a.cols)
        cols == a.cols \o SelectSeq(b.cols, isNew)
        widen(df, r) == [c \in Range(cols) |-> IF c \in Range(df.cols) THEN r[c] ELSE NaN]
    IN  Frame(cols, [i \in 1..Len(a.rows) |-> widen(a, a.rows[i])]
                        \o [i \in 1..Len(b.rows) |-> widen(b, b.rows[i])])

RECURSIVE Concat(_)
Concat(frames) ==
    IF Len(frames) = 1 THEN frames[1]
    ELSE Concat2(Concat(SubSeq(frames, 1, Len(frames) - 1)), frames[Len(frames)])

\* The loader without the try/except around a batch: one failure is fatal.
load_weather_data_strict(dir, csv_files) ==
    LET loaded == [i \in 1..Len(csv_files) |-> LoadBatch(csv_files[i], dir[csv_files[i]])]
    IN  IF csv_files = <<>> THEN Raised("FileNotFoundError: No raw data files found")
        ELSE IF \E i \in 1..Len(loaded) : ~loaded[i].ok
        THEN Raised("ParserError")
        ELSE Returned(Concat([i \in 1..Len(loaded) |-> loaded[i].df]))

\* load_weather_data(raw_data_dir), csv_files being what glob returned
load_weather_data(dir, csv_files) ==
    LET loaded == [i \in 1..Len(csv_files) |-> LoadBatch(csv_files[i], dir[csv_files[i]])]
        isOk(b) == b.ok
        good == SelectSeq(loaded, isOk)
        all_data == [i \in 1..Len(good) |-> good[i].df]
    IN  IF csv_files = <<>> THEN Raised("FileNotFoundError: No raw data files found")
        ELSE IF all_data = <<>> THEN Raised("ValueError: No valid data files were processed")
        ELSE Returned(Concat(all_data))

\* What to_csv writes for a float with at most four decimal places: the
\* shortest decimal that reads back as the same number, one decimal at least.
FractionDigits == 4

FractionText(frac, width) ==
    LET padded == [k \in 1..width |-> (frac \div (10 ^ (width - k))) % 10]
        used == {k \in 1..width : padded[k] # 0}
        last == IF used = {} THEN 1 ELSE CHOOSE k \in used : \A o \in used : o <= k
        RECURSIVE text(_)
        text(k) == IF k > last THEN "" ELSE Digit(padded[k]) \o text(k + 1)
    IN  text(1)

FormatFloat(q) ==
    LET unit == 10 ^ FractionDigits
        scaled == (Abs(q[1]) * unit) \div q[2]
    IN  (IF q[1] < 0 THEN "-" ELSE "") \o IntToStr(scaled \div unit) \o "."
            \o FractionText(scaled % unit, FractionDigits)

\* A field of the file to_csv writes: text as it is, nothing for NaN.
CsvField(v, numeric) == IF ~numeric THEN v ELSE IF IsNaN(v) THEN "" ELSE FormatFloat(v)

NumericColumns ==
    {"latitude", "longitude", "temperature_celsius_avg", "temperature_celsius_min",
     "temperature_celsius_max", "temperature_celsius_yoy_avg"}

\* final_df.to_csv(output_path, index=False)
to_csv(df) ==
    CsvFile(df.cols,
            [i \in 1..Len(df.rows) |->
                [j \in 1..Len(df.cols) |->
                    CsvField(df.rows[i][df.cols[j]], df.cols[j] \in NumericColumns)]])

DEFAULT_DB_PATH == "weather.db"

\* run_sql_queries(conn) as a whole: the five results, or the error of
\* the first query that names a column the table lacks.
run_sql_queries(table, tie) ==
    IF \A i \in 1..Len(QueryNames) : QueryColumns(QueryNames[i]) \subseteq Range(table.cols)
    THEN Returned([q \in Range(QueryNames) |-> read_sql_query(q, table, tie)])
    ELSE Raised("DatabaseError: no such column")

(* Inputs of the pipeline.                                                 *)

RawHeader == <<"Date/Time (LST)", "Temp (°C)">>

\* The batches a raw data directory may hold: hourly readings of two
\* stations and two years (the 2024 batch of the first station has a reading
\* stamped 2023), a second extract of one of them, a batch with a malformed
\* line, and a file whose name carries no year.
BatchPool ==
    [f \in {"station_26953_2023.csv", "station_26953_2023_b.csv", "station_26953_2024.csv",
            "station_31688_2023.csv", "station_31688_2024.csv", "station_notes.csv"} |->
        CASE f = "station_26953_2023.csv" ->
                CsvFile(RawHeader, << <<"2023-01-01 00:00", "-5.5">>, <<"2023-01-01 01:00", "-4.0">> >>)
          [] f = "station_26953_2023_b.csv" ->
                CsvFile(RawHeader, << <<"2023-01-02 00:00", "1.5">>, <<"2023-01-02 01:00", "2.0">> >>)
          [] f = "station_26953_2024.csv" ->
                CsvFile(RawHeader, << <<"2024-01-01 00:00", "2">>, <<"2023-02-01 00:00", "3">> >>)
          [] f = "station_31688_2023.csv" ->
                CsvFile(RawHeader, << <<"2023-01-01 00:00", "-7.25">>, <<"2023-02-01 00:00", "">> >>)
          [] f = "station_31688_2024.csv" ->
                CsvFile(RawHeader, << <<"2024-01-01 00:00", "-5.5">>,
                                      <<"2024-01-01 01:00", "-4.0", "M">> >>)
          [] OTHER ->
                CsvFile(RawHeader, << <<"2023-02-01 00:00", "9.5">> >>)]

RawDirs ==
    {[f \in names |-> BatchPool[f]] :
        names \in {n \in SUBSET DOMAIN BatchPool : Cardinality(n) <= MaxBatchFiles}}

\* The orders in which glob may enumerate the files of a directory.
GlobOrders(dir) == {o \in DistinctSeqsUpTo(DOMAIN dir, Cardinality(DOMAIN dir)) :
                        Len(o) = Cardinality(DOMAIN dir)}

GeonamesTables ==
    { Frame(GeoCols, <<DimRow("ABCDE", "Ottawa")>>),
      Frame(GeoCols, <<DimRow("FGHIJ", "Toronto"), DimRow("ABCDE", "Ottawa")>>) }

PipeIdle ==
    /\ raw_dir = NoFiles
    /\ geonames = EmptyFrame
    /\ pipe_tie = "rowid"
    /\ glob_order = <<>>
    /\ pipe_reordered = FALSE
    /\ pipe_pc = "idle"
    /\ pipe_step = NotCalled
    /\ pipe_files = NoFiles
    /\ pipe_db = [d \in {DEFAULT_DB_PATH} |-> NoTables]
    /\ pipe_out = "none"
    /\ pipe_runs = <<>>

PipeInputs ==
    /\ raw_dir \in RawDirs
    /\ geonames \in GeonamesTables
    /\ pipe_tie \in TieOrders
    /\ glob_order = <<>>
    /\ pipe_reordered = FALSE
    /\ pipe_pc = "load_weather_data"
    /\ pipe_step = NotCalled
    /\ pipe_files = NoFiles
    /\ pipe_db = [d \in {DEFAULT_DB_PATH} |-> NoTables]
    /\ pipe_out = "none"
    /\ pipe_runs = <<>>

\* The run on record once run_analysis is over.
RunRecord(analysed, results) ==
    [transformed |-> pipe_out = "returned",
     final |-> IF FinalDatasetFile \in DOMAIN pipe_files
               THEN pipe_files[FinalDatasetFile] ELSE ZeroByteCsv,
     analysed |-> analysed,
     results |-> results]

\* A call inside run_transformation_pipeline is over: the driver goes on
\* with the next call, or re-raises and run_analysis is next.
PipeAdvance(result, next) ==
    /\ pipe_step' = result
    /\ pipe_pc' = IF result.status = "raised" THEN "load_data_to_sqlite" ELSE next
    /\ pipe_out' = IF result.status = "raised" THEN "raised" ELSE pipe_out

\* run_transformation_pipeline: weather_df = load_weather_data(raw_data_dir);
\* glob enumerates the directory in an order of its own.
PipeLoadWeatherData ==
    /\ stage = "pipeline"
    /\ pipe_pc = "load_weather_data"
    /\ Len(pipe_runs) < MaxRuns
    /\ \E csv_files \in GlobOrders(raw_dir) :
          /\ glob_order' = csv_files
          /\ pipe_reordered' = (pipe_runs # <<>> /\ csv_files # glob_order)
          /\ PipeAdvance(load_weather_data(raw_dir, csv_files), "transform_weather_data")
    /\ UNCHANGED <<stage, raw_dir, geonames, pipe_tie, pipe_files, pipe_db, pipe_runs>>

\* monthly_df = transform_weather_data(weather_df)
PipeTransformWeatherData ==
    /\ stage = "pipeline"
    /\ pipe_pc = "transform_weather_data"
    /\ PipeAdvance(transform_weather_data("weather_utils", pipe_step.value), "calculate_yoy_delta")
    /\ UNCHANGED <<stage, raw_dir, geonames, pipe_tie, glob_order, pipe_reordered,
                   pipe_files, pipe_db, pipe_runs>>

\* monthly_df = calculate_yoy_delta(monthly_df)
PipeCalculateYoyDelta ==
    /\ stage = "pipeline"
    /\ pipe_pc = "calculate_yoy_delta"
    /\ PipeAdvance(calculate_yoy_delta(pipe_step.value), "join_weather_and_geonames")
    /\ UNCHANGED <<stage, raw_dir, geonames, pipe_tie, glob_order, pipe_reordered,
                   pipe_files, pipe_db, pipe_runs>>

\* final_df = join_weather_and_geonames(monthly_df, geonames_df)
PipeJoinWeatherAndGeonames ==
    /\ stage = "pipeline"
    /\ pipe_pc = "join_weather_and_geonames"
    /\ PipeAdvance(join_weather_and_geonames(pipe_step.value, geonames), "to_csv")
    /\ UNCHANGED <<stage, raw_dir, geonames, pipe_tie, glob_order, pipe_reordered,
                   pipe_files, pipe_db, pipe_runs>>

\* final_df.to_csv(output_path, index=False); return output_path
PipeToCsv ==
    /\ stage = "pipeline"
    /\ pipe_pc = "to_csv"
    /\ pipe_files' = WriteFile(pipe_files, FinalDatasetFile, to_csv(pipe_step.value))
    /\ pipe_pc' = "load_data_to_sqlite"
    /\ pipe_out' = "returned"
    /\ UNCHANGED <<stage, raw_dir, geonames, pipe_tie, glob_order, pipe_reordered,
                   pipe_step, pipe_db, pipe_runs>>

\* run_analysis(input_path): the test for the input file, then
\* conn = load_data_to_sqlite(input_path, db_path)
PipeLoadDataToSqlite ==
    /\ stage = "pipeline"
    /\ pipe_pc = "load_data_to_sqlite"
    /\ LET done == load_data_to_sqlite(pipe_files, pipe_db, FinalDatasetFile, DEFAULT_DB_PATH)
       IN  /\ pipe_db' = done.store
           /\ IF done.out.status = "raised"
              THEN /\ pipe_runs' = Append(pipe_runs, RunRecord(FALSE, NoResults))
                   /\ pipe_pc' = "load_weather_data"
                   /\ pipe_out' = "none"
              ELSE /\ pipe_runs' = pipe_runs
                   /\ pipe_pc' = "run_sql_queries"
                   /\ pipe_out' = pipe_out
    /\ UNCHANGED <<stage, raw_dir, geonames, pipe_tie, glob_order, pipe_reordered,
                   pipe_step, pipe_files>>

\* results = run_sql_queries(conn); return results
PipeRunSqlQueries ==
    /\ stage = "pipeline"
    /\ pipe_pc = "run_sql_queries"
    /\ LET results == run_sql_queries(pipe_db[DEFAULT_DB_PATH]["weather_data"], pipe_tie)
       IN  pipe_runs' = Append(pipe_runs,
                               IF results.status = "raised" THEN RunRecord(FALSE, NoResults)
                               ELSE RunRecord(TRUE, results.value))
    /\ pipe_pc' = "load_weather_data"
    /\ pipe_out' = "none"
    /\ UNCHANGED <<stage, raw_dir, geonames, pipe_tie, glob_order, pipe_reordered,
                   pipe_step, pipe_files, pipe_db>>

-----------------------------------------------------------------------------
(* Specifications: one per function under check, and their union.          *)

vars ==
    <<stage, joinVars, transformVars, yoyVars, qualityVars, saveVars, loadVars, sqlVars,
      fetchVars, runVars, pipeVars>>

\* Every part of the state but the named one is as before any call.
OthersIdle(part) ==
    /\ IF part = "join" THEN TRUE ELSE JoinIdle
    /\ IF part = "transform" THEN TRUE ELSE TransformIdle
    /\ IF part = "yoy" THEN TRUE ELSE YoyIdle
    /\ IF part = "quality" THEN TRUE ELSE QualityIdle
    /\ IF part = "save" THEN TRUE ELSE SaveIdle
    /\ IF part = "load" THEN TRUE ELSE LoadIdle
    /\ IF part = "sql" THEN TRUE ELSE SqlIdle
    /\ IF part = "fetch" THEN TRUE ELSE FetchIdle
    /\ IF part = "run" THEN TRUE ELSE RunIdle
    /\ IF part = "pipeline" THEN TRUE ELSE PipeIdle

\* A step of the named part leaves the others alone.
OthersUnchanged(part) ==
    /\ IF part = "join" THEN TRUE ELSE UNCHANGED joinVars
    /\ IF part = "transform" THEN TRUE ELSE UNCHANGED transformVars
    /\ IF part = "yoy" THEN TRUE ELSE UNCHANGED yoyVars
    /\ IF part = "quality" THEN TRUE ELSE UNCHANGED qualityVars
    /\ IF part = "save" THEN TRUE ELSE UNCHANGED saveVars
    /\ IF part = "load" THEN TRUE ELSE UNCHANGED loadVars
    /\ IF part = "sql" THEN TRUE ELSE UNCHANGED sqlVars
    /\ IF part = "fetch" THEN TRUE ELSE UNCHANGED fetchVars
    /\ IF part = "run" THEN TRUE ELSE UNCHANGED runVars
    /\ IF part = "pipeline" THEN TRUE ELSE UNCHANGED pipeVars

JoinInit == stage = "join_call" /\ JoinInputs /\ OthersIdle("join")

JoinNext == JoinWeatherAndGeonames /\ OthersUnchanged("join")

SpecJoin == JoinInit /\ [][JoinNext]_vars

TransformInit == stage = "transform_call" /\ TransformInputs /\ OthersIdle("transform")

TransformNext == TransformWeatherData /\ OthersUnchanged("transform")

SpecTransform == TransformInit /\ [][TransformNext]_vars

YoyInit == stage = "yoy_call" /\ YoyInputs /\ OthersIdle("yoy")

YoyNext == CalculateYoyDelta /\ OthersUnchanged("yoy")

SpecYoy == YoyInit /\ [][YoyNext]_vars

QualityInit == stage = "quality_call" /\ QualityInputs /\ OthersIdle("quality")

QualityNext == CheckDataQuality /\ OthersUnchanged("quality")

SpecQuality == QualityInit /\ [][QualityNext]_vars

SaveInit == stage = "save" /\ SaveInputs /\ OthersIdle("save")

SaveNext ==
    \/ SaveAnalysisResults /\ OthersUnchanged("save")
    \/ GetAnalysisResultsAndSave /\ OthersUnchanged("save")
    \/ RunAnalysisWrapper /\ OthersUnchanged("save")
    \/ RunSaveTask /\ OthersUnchanged("save")

SpecSave == SaveInit /\ [][SaveNext]_vars

LoadInit == stage = "load" /\ LoadInputs /\ OthersIdle("load")

LoadNext == LoadDataToSqlite /\ OthersUnchanged("load")

SpecLoad == LoadInit /\ [][LoadNext]_vars

SqlInit == stage = "analysis" /\ SqlInputs /\ OthersIdle("sql")

SqlNext ==
    \/ RunQuery /\ OthersUnchanged("sql")
    \/ ReturnQueryResults /\ OthersUnchanged("sql")

SpecSql == SqlInit /\ [][SqlNext]_vars

FetchInit == stage = "fetch" /\ FetchInputs /\ OthersIdle("fetch")

FetchNext ==
    \/ SendRequest /\ OthersUnchanged("fetch")
    \/ Sleep /\ OthersUnchanged("fetch")

SpecFetch == FetchInit /\ [][FetchNext]_vars

\* The request returns or raises and the sleep ends: every step that is
\* enabled is eventually taken.
SpecFetchFair == SpecFetch /\ WF_vars(FetchNext)

RunInit == stage = "run" /\ RunInputs /\ OthersIdle("run")

RunNext ==
    \/ RunExtraction /\ OthersUnchanged("run")
    \/ RunSensor /\ OthersUnchanged("run")
    \/ RunBranch /\ OthersUnchanged("run")
    \/ RunTransformation /\ OthersUnchanged("run")
    \/ RunPlainTask /\ OthersUnchanged("run")
    \/ PassOver /\ OthersUnchanged("run")
    \/ ScriptIteration /\ OthersUnchanged("run")
    \/ ScriptSaveReport /\ OthersUnchanged("run")

SpecRun == RunInit /\ [][RunNext]_vars

PipelineInit == stage = "pipeline" /\ PipeInputs /\ OthersIdle("pipeline")

PipelineNext ==
    \/ PipeLoadWeatherData /\ OthersUnchanged("pipeline")
    \/ PipeTransformWeatherData /\ OthersUnchanged("pipeline")
    \/ PipeCalculateYoyDelta /\ OthersUnchanged("pipeline")
    \/ PipeJoinWeatherAndGeonames /\ OthersUnchanged("pipeline")
    \/ PipeToCsv /\ OthersUnchanged("pipeline")
    \/ PipeLoadDataToSqlite /\ OthersUnchanged("pipeline")
    \/ PipeRunSqlQueries /\ OthersUnchanged("pipeline")

SpecPipeline == PipelineInit /\ [][PipelineNext]_vars

Init ==
    \/ JoinInit \/ TransformInit \/ YoyInit \/ QualityInit
    \/ SaveInit \/ LoadInit \/ SqlInit \/ FetchInit \/ RunInit \/ PipelineInit

Next ==
    \/ JoinNext \/ TransformNext \/ YoyNext \/ QualityNext
    \/ SaveNext \/ LoadNext \/ SqlNext \/ FetchNext \/ RunNext \/ PipelineNext

Spec == Init /\ [][Next]_vars

-----------------------------------------------------------------------------
(* Claims about the join.                                                  *)

\* The dimension rows of g that belong to the station of monthly record r.
MatchesOf(r, g) ==
    {j \in 1..Len(g.rows) : g.rows[j]["climate_id"] = station_mapping[r["station_id"]]}

\* Both frames carry every column the final dataset is made of, once.
JoinSchemaComplete ==
    /\ Range(MonthlyCols) \subseteq Range(weather_df.cols)
    /\ Range(GeoCols) \subseteq Range(geonames_df.cols)
    /\ Range(weather_df.cols) \cap Range(geonames_df.cols) \subseteq {"join_key"}

EveryStationMatchedOnce ==
    \A i \in 1..Len(weather_df.rows) :
        Cardinality(MatchesOf(weather_df.rows[i], geonames_df)) = 1

\* The final row of monthly record r joined to dimension row d.
FinalRow(r, d) ==
    [c \in Range(final_columns) |-> IF c \in Range(GeoCols) THEN d[c] ELSE r[c]]

\* C1: when every station of the monthly records has exactly one row in the
\* dimension table, the join returns exactly one final row per monthly
\* record, in order, each carrying the metadata of its own station.
C1_OneRowPerMonthlyRecord ==
    (stage = "join_done" /\ JoinSchemaComplete /\ EveryStationMatchedOnce) =>
        /\ join_out.status = "returned"
        /\ Len(join_out.value.rows) = Len(weather_df.rows)
        /\ \A i \in 1..Len(weather_df.rows) :
              join_out.value.rows[i] =
                  FinalRow(weather_df.rows[i],
                           geonames_df.rows[CHOOSE j \in MatchesOf(weather_df.rows[i], geonames_df) : TRUE])

\* C2: if some station of the monthly records has zero or more than one
\* matching dimension row, the join raises and returns no dataset.
C2_RaisesOnZeroOrDuplicateMatch ==
    (stage = "join_done" /\ JoinSchemaComplete /\ ~EveryStationMatchedOnce) =>
        join_out.status = "raised"

ElevenColumns ==
    << "station_name", "climate_id", "latitude", "longitude", "date_month",
       "feature_id", "map", "temperature_celsius_avg", "temperature_celsius_min",
       "temperature_celsius_max", "temperature_celsius_yoy_avg" >>

\* A column is present after the join under its own name iff exactly one of
\* the two frames has it (a column of both is renamed with suffixes).
AbsentAfterJoin(c) ==
    (c \in Range(weather_df.cols)) <=> (c \in Range(geonames_df.cols))

\* C3: whenever the join returns, its result has exactly the eleven final
\* columns in the fixed order (every row carrying exactly these); it raises
\* instead of returning iff one of them is absent after the join.
C3_FixedColumnsOrError ==
    stage = "join_done" =>
        /\ join_out.status \in {"returned", "raised"}
        /\ join_out.status = "returned" =>
              /\ join_out.value.cols = ElevenColumns
              /\ \A i \in 1..Len(join_out.value.rows) :
                    DOMAIN join_out.value.rows[i] = Range(ElevenColumns)
        /\ join_out.status = "raised" <=> \E c \in Range(ElevenColumns) : AbsentAfterJoin(c)

\* C3 witnesses: a join that returned rows, and one that raised on a missing column.
C3_Witness ==
    /\ stage = "join_done"
    /\ join_out.status = "returned"
    /\ Len(join_out.value.rows) >= 2

(* Claims about the aggregator.                                            *)

\* The call was made on a batch with the test's column names.
TestSchemaCall ==
    /\ stage = "transform_done"
    /\ {"Date/Time", "Temp (°C)", "station_id"} \subseteq Range(raw_df.cols)
    /\ Range(raw_df.cols) \cap {"Date/Time (LST)", "Mean Temp (°C)", "Temp (째C)"} = {}

\* The non-null readings of group k, as a set of row indices of the raw frame.
ReadingsOf(k) ==
    {i \in 1..Len(raw_df.rows) :
        /\ ~IsNaN(raw_df.rows[i]["Temp (°C)"])
        /\ <<raw_df.rows[i]["station_id"], raw_df.rows[i]["year"], raw_df.rows[i]["month"]>> = k}

GroupsPresent ==
    {k \in {<<raw_df.rows[i]["station_id"], raw_df.rows[i]["year"], raw_df.rows[i]["month"]>> :
                i \in 1..Len(raw_df.rows)} : ReadingsOf(k) # {}}

RECURSIVE SumOver(_)
SumOver(I) ==
    IF I = {} THEN Rat(0, 1)
    ELSE LET i == CHOOSE j \in I : TRUE
         IN  RatAdd(raw_df.rows[i]["Temp (°C)"], SumOver(I \ {i}))

\* Row a is the aggregate of group k: avg * n = sum, min and max are the
\* least and the greatest reading.
IsAggregateOf(a, k) ==
    LET I == ReadingsOf(k)
        t(i) == raw_df.rows[i]["Temp (°C)"]
    IN  /\ <<a["station_id"], a["year"], a["month"]>> = k
        /\ RatEq(RatMul(a["temperature_celsius_avg"], Rat(Cardinality(I), 1)), SumOver(I))
        /\ \E i \in I : a["temperature_celsius_min"] = t(i)
        /\ \A i \in I : RatLE(a["temperature_celsius_min"], t(i))
        /\ \E i \in I : a["temperature_celsius_max"] = t(i)
        /\ \A i \in I : RatLE(t(i), a["temperature_celsius_max"])

\* The batch of the test: [5.2, 4.8] in January and [6.1, 5.9] in February.
TestBatch ==
    /\ Len(raw_df.rows) = 4
    /\ \A i \in 1..4 : raw_df.rows[i]["station_id"] = "12345"
    /\ [i \in 1..4 |-> raw_df.rows[i]["Date/Time"]]
          = << "2023-01-01", "2023-01-02", "2023-02-01", "2023-02-02" >>
    /\ [i \in 1..4 |-> raw_df.rows[i]["Temp (°C)"]]
          = << Rat(52, 10), Rat(48, 10), Rat(61, 10), Rat(59, 10) >>

Stats(a) ==
    << a["month"], a["temperature_celsius_avg"], a["temperature_celsius_min"],
       a["temperature_celsius_max"] >>

AggregatesAsClaimed ==
    /\ transform_out.status = "returned"
    /\ Len(transform_out.value.rows) = Cardinality(GroupsPresent)
    /\ \A k \in GroupsPresent :
          \E j \in 1..Len(transform_out.value.rows) :
              IsAggregateOf(transform_out.value.rows[j], k)
    /\ TestBatch =>
          [j \in 1..Len(transform_out.value.rows) |-> Stats(transform_out.value.rows[j])]
              = << <<1, Rat(50, 10), Rat(48, 10), Rat(52, 10)>>,
                   <<2, Rat(60, 10), Rat(59, 10), Rat(61, 10)>> >>

\* C4: for a batch with the columns 'Date/Time' and 'Temp (°C)', either copy
\* of transform_weather_data returns one aggregate per (station, year, month)
\* present, with avg, min and max over that group's readings; the test batch
\* gives January {5.0, 4.8, 5.2} and February {6.0, 5.9, 6.1}.
C4_AggregatesPerGroup == TestSchemaCall => AggregatesAsClaimed

\* The same statement for the copy in weather_utils alone.
C4_WeatherUtilsCopy == (TestSchemaCall /\ tf_module = "weather_utils") => AggregatesAsClaimed

EarlierYears(rows, i) ==
    {j \in 1..Len(rows) :
        /\ rows[j]["station_id"] = rows[i]["station_id"]
        /\ rows[j]["month"] = rows[i]["month"]
        /\ rows[j]["year"] < rows[i]["year"]}

Without(r, column) == [c \in DOMAIN r \ {column} |-> r[c]]

\* C6: the output holds the input's records, each partition (station, month)
\* in ascending year; the first record of a partition has an undefined
\* delta, every other one avg minus the avg of the record before it in its
\* partition.  Averages 4.0 (2022) and 5.0 (2023) give 1.0 for 2023 and
\* undefined for 2022.
C6_YoyDelta ==
    stage = "yoy_done" =>
        /\ yoy_out.status = "returned"
        /\ LET rows == yoy_out.value.rows
               delta(i) == rows[i]["temperature_celsius_yoy_avg"]
               avg(i) == rows[i]["temperature_celsius_avg"]
           IN  /\ Len(rows) = Len(yoy_df.rows)
               /\ {Without(rows[i], "temperature_celsius_yoy_avg") : i \in 1..Len(rows)}
                      = Range(yoy_df.rows)
               /\ \A i \in 1..Len(rows) :
                     /\ \A j \in EarlierYears(rows, i) : j < i
                     /\ EarlierYears(rows, i) = {} => IsNaN(delta(i))
                     /\ EarlierYears(rows, i) # {} =>
                           LET prev == CHOOSE j \in EarlierYears(rows, i) :
                                          \A o \in EarlierYears(rows, i) :
                                              rows[o]["year"] <= rows[j]["year"]
                           IN  /\ RatEq(RatAdd(delta(i), avg(prev)), avg(i))
                               /\ (avg(prev) = Rat(40, 10) /\ avg(i) = Rat(50, 10))
                                      => delta(i) = Rat(1, 1)

\* C6 witness: a partition given out of order, with a record of another
\* partition between its years, got 4.0 -> 5.0 = 1.0.
C6_Witness ==
    /\ stage = "yoy_done"
    /\ Len(yoy_df.rows) = 3
    /\ yoy_df.rows[1]["year"] = 2023 /\ yoy_df.rows[3]["year"] = 2022
    /\ yoy_df.rows[1]["month"] = 2 /\ yoy_df.rows[3]["month"] = 2
    /\ yoy_df.rows[2]["month"] = 1 /\ yoy_df.rows[2]["station_id"] = "12345"
    /\ \E i \in 1..Len(yoy_out.value.rows) :
          /\ yoy_out.value.rows[i]["year"] = 2023
          /\ yoy_out.value.rows[i]["temperature_celsius_yoy_avg"] = Rat(1, 1)
    /\ \E i \in 1..Len(yoy_out.value.rows) :
          /\ yoy_out.value.rows[i]["year"] = 2022
          /\ IsNaN(yoy_out.value.rows[i]["temperature_celsius_yoy_avg"])

(* Claims about the quality auditor.                                      *)

\* The copy called recognises the batch's timestamp column.
TimestampResolved ==
    IF q_module = "data_extraction"
    THEN "Date/Time" \in Range(q_df.cols)
    ELSE Range(q_df.cols) \cap {"Date/Time", "Date/Time (LST)"} # {}

MonthLengths2023 == <<31, 28, 31, 30, 31, 30, 31, 31, 30, 31, 30, 31>>

Calendar2023 == {<<2023, m, d>> : m \in 1..12, d \in 1..31} \cap
                    {c \in {2023} \X (1..12) \X (1..31) : c[3] <= MonthLengths2023[c[2]]}

RECURSIVE DaysBefore(_)
DaysBefore(m) == IF m = 1 THEN 0 ELSE DaysBefore(m - 1) + MonthLengths2023[m - 1]

\* The day of the year 2023 of a date.
DayNumber(d) == DaysBefore(d[2]) + d[3]

ObservedDates == {q_df.rows[i]["Date"] : i \in 1..Len(q_df.rows)}

\* The dates reported missing, as the copy called writes them.
Written(D) == IF q_module = "data_extraction" THEN D ELSE {IsoDate(d) : d \in D}

\* C7: the dates reported missing are exactly the calendar dates between the
\* least and the greatest observed date that have no observation; their
\* number is (days from min to max inclusive) - (distinct observed dates);
\* dates {01-01, 01-02, 01-03, 01-05} give exactly 01-04.
C7_MissingDates ==
    (stage = "quality_done" /\ TimestampResolved /\ q_df.rows # <<>>) =>
        /\ quality_out.status = "returned"
        /\ LET lo == CHOOSE d \in ObservedDates :
                        \A o \in ObservedDates : DayNumber(d) <= DayNumber(o)
               hi == CHOOSE d \in ObservedDates :
                        \A o \in ObservedDates : DayNumber(o) <= DayNumber(d)
               unobserved == {d \in Calendar2023 \ ObservedDates :
                                 DayNumber(lo) < DayNumber(d) /\ DayNumber(d) < DayNumber(hi)}
               reported == quality_out.value["missing_dates"]
           IN  /\ reported = Written(unobserved)
               /\ Cardinality(reported)
                      = (DayNumber(hi) - DayNumber(lo) + 1) - Cardinality(ObservedDates)
               /\ ObservedDates = {<<2023, 1, 1>>, <<2023, 1, 2>>, <<2023, 1, 3>>, <<2023, 1, 5>>}
                      => reported = Written({<<2023, 1, 4>>})

\* C7 witness: the test's dates were audited and 2023-01-04 reported.
C7_Witness ==
    /\ stage = "quality_done"
    /\ q_module = "weather_utils"
    /\ Len(q_df.rows) = 4
    /\ ObservedDates = {<<2023, 1, 1>>, <<2023, 1, 2>>, <<2023, 1, 3>>, <<2023, 1, 5>>}
    /\ quality_out.status = "returned"
    /\ quality_out.value["missing_dates"] = {"2023-01-04"}

\* The batch of the test: temperatures [5.2, 4.8, null, 100.0].
TestTemperatures ==
    /\ "Temp (°C)" \in Range(q_df.cols)
    /\ [i \in 1..Len(q_df.rows) |-> q_df.rows[i]["Temp (°C)"]]
          = << Rat(52, 10), Rat(48, 10), NaN, Rat(1000, 10) >>

\* C8: for temperatures [5.2, 4.8, null, 100.0] the null count of the
\* temperature field is 1 and the outlier count is at least 1.
C8_NullAndOutlier ==
    (stage = "quality_done" /\ TestTemperatures) =>
        /\ quality_out.status = "returned"
        /\ "Temp (°C)" \in DOMAIN quality_out.value["null_counts"]
        /\ quality_out.value["null_counts"]["Temp (°C)"] = 1
        /\ quality_out.value["temperature_outliers"] >= 1

\* What the code reports for that batch: one null and no outlier.
C8_AsComputed ==
    (stage = "quality_done" /\ TestTemperatures) =>
        /\ quality_out.status = "returned"
        /\ quality_out.value["null_counts"] = [c \in {"Temp (°C)"} |-> 1]
        /\ quality_out.value["temperature_outliers"] = 0

-----------------------------------------------------------------------------
(* Claims about the save step.                                             *)

SavedPath == PathJoin(save_args.output_dir, "analysis_results.json")

\* The artifact of the last call is on disk, complete, at the returned path.
ArtifactWritten ==
    /\ save_out.status = "returned"
    /\ save_out.value \in DOMAIN fs_files
    /\ fs_files[save_out.value].complete

\* The artifact holds the payload as the save step is to wrap it.
ArtifactWraps(results) ==
    LET data == fs_files[save_out.value].data
    IN  CASE results.kind = "dict" -> DOMAIN data = DOMAIN results.items
          [] results.kind = "none" -> DOMAIN data = {"error"}
          [] OTHER -> DOMAIN data = {"raw_data"} /\ data["raw_data"] = results.text

\* C9: save_analysis_results degrades gracefully for every payload shape: for
\* a mapping, a string, None or any other value, the output directory
\* existing or not, it returns the path of the results artifact it wrote
\* without raising, a string or other value wrapped under 'raw_data' and an
\* absent payload under 'error'.
C9_SaveDegradesGracefully ==
    (stage = "save" /\ save_args.entry = "save_analysis_results") =>
        /\ ArtifactWritten
        /\ save_out.value = SavedPath
        /\ ArtifactWraps(save_args.results)

\* What holds of the code: the payloads that are not strings and whose values
\* are all serializable are saved as the claim says.
C9_NonStringSerializable ==
    ( /\ stage = "save"
      /\ save_args.entry = "save_analysis_results"
      /\ save_args.results.kind # "str"
      /\ ItemsSerializable(save_args.results.items) ) =>
        /\ ArtifactWritten
        /\ save_out.value = SavedPath
        /\ ArtifactWraps(save_args.results)

\* The task wrapper turns every failure of the save into the fallback artifact.
WrapperAlwaysWrites ==
    (stage = "save" /\ save_args.entry = "get_analysis_results_and_save") => ArtifactWritten

-----------------------------------------------------------------------------
(* Claims about the loader.                                                *)

LastLoad == load_log[Len(load_log)]

RowsOfFile(input_path) == SqlRows(read_csv(CsvFiles[input_path]))

\* C10: load_data_to_sqlite replaces the weather_data table: after a call
\* that returned, the table holds exactly the rows of the input file,
\* whatever it held before, so a second load of the same file leaves the rows
\* of one load.
C10_LoadReplaces ==
    (stage = "load" /\ load_log # <<>> /\ LastLoad.out.status = "returned") =>
        /\ "weather_data" \in DOMAIN db_tables[LastLoad.db_path]
        /\ db_tables[LastLoad.db_path]["weather_data"].cols = CsvFiles[LastLoad.input_path].header
        /\ db_tables[LastLoad.db_path]["weather_data"].rows = RowsOfFile(LastLoad.input_path)

\* The test's file loaded twice into a database that held an older table.
C10_Witness ==
    /\ stage = "load"
    /\ Len(load_log) = 2
    /\ load_log[1].input_path = "test.csv"
    /\ load_log[2].input_path = "test.csv"
    /\ load_log[1].db_path = load_log[2].db_path
    /\ load_log[1].out.status = "returned"
    /\ load_log[2].out.status = "returned"
    /\ "weather_data" \in DOMAIN load_log[1].before
    /\ Len(load_log[1].before["weather_data"].rows) = 1
    /\ Len(load_log[2].before["weather_data"].rows) = 3
    /\ Len(db_tables[load_log[2].db_path]["weather_data"].rows) = 3

-----------------------------------------------------------------------------
(* Claims about the analysis queries.                                      *)

FiveQueries ==
    << "avg_temp_by_station_year", "monthly_temp_variations", "yoy_temp_change",
       "extreme_high_temps", "extreme_low_temps" >>

\* The columns each query's result has by its SELECT list.
ResultColumns(name) ==
    CASE name = "avg_temp_by_station_year" -> <<"station_name", "year", "avg_temperature">>
      [] name = "monthly_temp_variations" -> <<"station_name", "month", "avg_daily_variation">>
      [] name = "yoy_temp_change" -> <<"station_name", "month", "avg_yoy_change">>
      [] name = "extreme_high_temps" -> <<"station_name", "date_month", "max_temperature">>
      [] OTHER -> <<"station_name", "date_month", "min_temperature">>

\* C11: run_sql_queries executes the five queries one after another in the
\* order avg_temp_by_station_year, monthly_temp_variations, yoy_temp_change,
\* extreme_high_temps, extreme_low_temps, and what it returns is a mapping of
\* exactly these five names, each bound to the result of its own query.
C11_FiveQueriesInOrder ==
    stage = "analysis" =>
        /\ Len(query_log) <= 5
        /\ query_log = SubSeq(FiveQueries, 1, Len(query_log))
        /\ DOMAIN query_results \subseteq Range(query_log)
        /\ sql_out.status = "returned" =>
              /\ query_log = FiveQueries
              /\ DOMAIN sql_out.value = Range(FiveQueries)
              /\ \A name \in Range(FiveQueries) :
                    /\ sql_out.value[name].cols = ResultColumns(name)
                    /\ sql_out.value[name] = read_sql_query(name, conn_table, tie_order)

\* C11 witness: the five queries have run on a table of eleven rows and the
\* mapping was returned.
C11_Witness ==
    /\ stage = "analysis"
    /\ sql_out.status = "returned"
    /\ Len(conn_table.rows) = 11
    /\ Len(query_log) = 5
    /\ Len(sql_out.value["avg_temp_by_station_year"].rows) = 4

\* Numeric comparison of two cells, false when one of them is NULL.
NumLT(a, b) == ~IsNull(a) /\ ~IsNull(b) /\ RatLT(a.num, b.num)

\* The result has at most 10 rows, each a row of the table, none followed by
\* a row that sorts before it, and every table row that sorts strictly before
\* an included row is included (counting rows with equal values).
ExtremeAsClaimed(result, column, alias, descending) ==
    LET n == Len(result.rows)
        sortsBefore(a, b) == IF descending THEN NumLT(b, a) ELSE NumLT(a, b)
    IN  /\ n <= 10
        /\ \A j \in 1..n : \E i \in 1..Len(conn_table.rows) :
              /\ result.rows[j][alias] = conn_table.rows[i][column]
              /\ result.rows[j]["station_name"] = conn_table.rows[i]["station_name"]
              /\ result.rows[j]["date_month"] = conn_table.rows[i]["date_month"]
        /\ \A j \in 1..(n - 1) : ~sortsBefore(result.rows[j + 1][alias], result.rows[j][alias])
        /\ \A j \in 1..n :
              Cardinality({i \in 1..Len(conn_table.rows) :
                              sortsBefore(conn_table.rows[i][column], result.rows[j][alias])})
                 = Cardinality({k \in 1..n :
                              sortsBefore(result.rows[k][alias], result.rows[j][alias])})

\* C12: for every table content extreme_high_temps has at most 10 rows in
\* non-increasing order of max temperature and leaves out no row with a
\* larger max temperature than an included row; extreme_low_temps has at most
\* 10 rows in non-decreasing order of min temperature and leaves out no row
\* with a smaller min temperature than an included row.
C12_ExtremesBoundedAndOrdered ==
    stage = "analysis" =>
        /\ "extreme_high_temps" \in DOMAIN query_results =>
              ExtremeAsClaimed(query_results["extreme_high_temps"],
                               "temperature_celsius_max", "max_temperature", TRUE)
        /\ "extreme_low_temps" \in DOMAIN query_results =>
              ExtremeAsClaimed(query_results["extreme_low_temps"],
                               "temperature_celsius_min", "min_temperature", FALSE)

\* C12 witness: both limits cut a table of eleven rows that has equal and
\* NULL temperatures.
C12_Witness ==
    /\ stage = "analysis"
    /\ Len(conn_table.rows) = 11
    /\ \E i \in 1..11 : IsNull(conn_table.rows[i]["temperature_celsius_min"])
    /\ "extreme_low_temps" \in DOMAIN query_results
    /\ Len(query_results["extreme_high_temps"].rows) = 10
    /\ Len(query_results["extreme_low_temps"].rows) = 10
    /\ IsNull(query_results["extreme_low_temps"].rows[1]["min_temperature"])

-----------------------------------------------------------------------------
(* Claims about the extraction.                                            *)

\* Number of sleeps that must have ended by now: one after every failed
\* request but the one a finished call ended with and the one being slept on.
SleepsDue == IF fetch_pc = "request" THEN Len(attempt_log) ELSE Len(attempt_log) - 1

\* At most three requests, a further request only after a failed one, the
\* sleeps 2 then 4 seconds, the batch returned by the request that succeeded,
\* the request error raised after the third failure and only then.
BoundedRetries ==
    stage = "fetch" =>
        /\ Len(attempt_log) <= 3
        /\ \A i \in 1..(Len(attempt_log) - 1) : attempt_log[i] = "request_error"
        /\ slept = SubSeq(<<2, 4>>, 1, SleepsDue)
        /\ fetch_out.status = "returned" =>
              fetch_pc = "done" /\ attempt_log[Len(attempt_log)] = "ok"
        /\ (Len(attempt_log) > 0 /\ attempt_log[Len(attempt_log)] = "request_error") =>
              IF Len(attempt_log) = 3
              THEN fetch_pc = "done" /\ fetch_out = Raised("RequestException")
              ELSE fetch_pc # "done" /\ fetch_out = NotCalled
        /\ fetch_out = Raised("RequestException") =>
              attempt_log = <<"request_error", "request_error", "request_error">>

\* C13: fetch_weather_data makes at most 3 request attempts, returns the
\* batch on the first successful attempt without further requests, waits 2
\* seconds after the first failed attempt and 4 after the second, raises the
\* request error after the third failed attempt, and always terminates.
C13_BoundedRetriesAndTermination ==
    /\ []BoundedRetries
    /\ <>(stage = "fetch" /\ fetch_pc = "done" /\ fetch_out # NotCalled)

\* C13 witness: three requests failed, 2 and 4 seconds were slept, and the
\* request error was raised.
C13_Witness ==
    /\ stage = "fetch"
    /\ fetch_pc = "done"
    /\ attempt_log = <<"request_error", "request_error", "request_error">>
    /\ slept = <<2, 4>>
    /\ fetch_out = Raised("RequestException")

-----------------------------------------------------------------------------
(* Claims about the run.                                                   *)

FailedExtractions == {t \in ExtractionTasks : task_state[t] = "failed"}

SucceededExtractions == {t \in ExtractionTasks : task_state[t] = "success"}

\* Nothing is left to run or to pass over.
RunComplete ==
    IF run_entry = "dag"
    THEN \A t \in DagTasks : task_state[t] # "none"
    ELSE ScriptPending = {} /\ QualityReportFile(RAW_DATA_DIR) \in artifacts

\* The batches that were fetched are saved and their quality records kept.
SucceededBatchesKept ==
    \A t \in SucceededExtractions :
        RawBatchFile(t) \in artifacts /\ StationYearOf(t) \in xcom_quality

\* C14: a fetch that fails after its retries is fatal only to its own
\* station/year task: the other batches are still fetched, saved and audited,
\* and the rest of the run (quality report, gating decision, transformation,
\* analysis) still proceeds with the batches that succeeded.
C14_FetchFailureNotFatalToRun ==
    ( /\ stage = "run"
      /\ RunComplete
      /\ FailedExtractions # {}
      /\ SucceededExtractions # {} ) =>
        /\ FailedExtractions \cup SucceededExtractions = ExtractionTasks
        /\ SucceededBatchesKept
        /\ QualityReportFile(RAW_DATA_DIR) \in artifacts
        /\ run_entry = "dag" =>
              /\ task_state["check_extractions_completed"] = "success"
              /\ branch_choice = "run_transformation"
              /\ task_state["run_transformation"] \in {"success", "failed"}
              /\ task_state["run_analysis"] = "success"

\* What holds of the script: main() catches the failure of an iteration,
\* goes on with the next pair and saves the quality report.
C14_ScriptGoesOn ==
    (stage = "run" /\ run_entry = "script" /\ RunComplete) =>
        /\ FailedExtractions \cup SucceededExtractions = ExtractionTasks
        /\ SucceededBatchesKept
        /\ QualityReportFile(RAW_DATA_DIR) \in artifacts

\* What holds of the orchestrated run: one failed extraction task leaves the
\* sensor and everything after it unrun.
C14_DagStopsAtSensor ==
    (stage = "run" /\ run_entry = "dag" /\ RunComplete /\ FailedExtractions # {}) =>
        /\ SucceededBatchesKept
        /\ \A t \in DagTasks \ (ExtractionTasks \cup {"start_pipeline"}) :
              task_state[t] = "upstream_failed"
        /\ artifacts = {RawBatchFile(t) : t \in SucceededExtractions}

-----------------------------------------------------------------------------
(* Claims about the pipeline drivers and load_weather_data                 *)

\* The batches that parse and carry a station id and a year in their name.
ValidBatches(dir) ==
    {f \in DOMAIN dir : Len(SplitOn(WithoutCsv(f), "_")) >= 3 /\ ~read_csv_raises(dir[f])}

TaggedRecords(dir, f) ==
    LET df == PandasFrame(read_csv(dir[f]))
        name == SplitOn(WithoutCsv(f), "_")
    IN  [i \in 1..Len(df.rows) |->
            [c \in Range(df.cols) \cup {"station_id", "data_year"} |->
                CASE c = "station_id" -> name[2]
                  [] c = "data_year" -> name[3]
                  [] OTHER -> df.rows[i][c]]]

RECURSIVE RecordsOfValid(_, _)
RecordsOfValid(dir, order) ==
    IF order = <<>> THEN <<>>
    ELSE (IF order[1] \in ValidBatches(dir) THEN TaggedRecords(dir, order[1]) ELSE <<>>)
             \o RecordsOfValid(dir, Tail(order))

LoaderErrors ==
    {"FileNotFoundError: No raw data files found",
     "ValueError: No valid data files were processed"}

\* C16: load_weather_data skips a batch file that fails to parse and returns
\* the records of all batches that did parse, one batch after the other, each
\* record tagged with the station id and the year of its file name; it
\* raises only when the directory holds no batch file or every batch fails.
C16_LoadSkipsBadBatches ==
    stage = "pipeline" /\ pipe_pc # "load_weather_data" =>
        IF ValidBatches(raw_dir) = {}
        THEN /\ pipe_step.status = "raised"
             /\ pipe_step.error = IF DOMAIN raw_dir = {}
                                  THEN "FileNotFoundError: No raw data files found"
                                  ELSE "ValueError: No valid data files were processed"
        ELSE /\ pipe_step.error \notin LoaderErrors
             /\ pipe_pc = "transform_weather_data" =>
                   /\ pipe_step.status = "returned"
                   /\ pipe_step.value.rows = RecordsOfValid(raw_dir, glob_order)

\* The loader has returned from a directory with two batches that parse and
\* one that does not.
C16_Witness ==
    /\ stage = "pipeline"
    /\ pipe_pc = "transform_weather_data"
    /\ pipe_step.status = "returned"
    /\ Cardinality(ValidBatches(raw_dir)) >= 2
    /\ "station_31688_2024.csv" \in DOMAIN raw_dir
    /\ Len(pipe_step.value.rows) >= 3

-----------------------------------------------------------------------------
(* Claims about the order and the gaps of calculate_yoy_delta              *)

\* The records of the year before that of row i, same station and month.
PriorYear(rows, i) ==
    {j \in 1..Len(rows) :
        /\ rows[j]["station_id"] = rows[i]["station_id"]
        /\ rows[j]["month"] = rows[i]["month"]
        /\ rows[j]["year"] = rows[i]["year"] - 1}

\* C17: the delta of the record for year Y of a station and month is
\* defined if and only if the input holds a record for year Y-1 of that
\* station and month, and is then avg(Y) - avg(Y-1); after a gap in the
\* years (2021 and 2023 only) the delta of the later record is undefined.
C17_DeltaOnlyAgainstPriorYear ==
    stage = "yoy_done" /\ yoy_out.status = "returned" =>
        LET rows == yoy_out.value.rows
        IN  \A i \in 1..Len(rows) :
               /\ PriorYear(rows, i) = {} <=> IsNaN(rows[i]["temperature_celsius_yoy_avg"])
               /\ \A j \in PriorYear(rows, i) :
                     rows[i]["temperature_celsius_yoy_avg"]
                        = RatSub(rows[i]["temperature_celsius_avg"],
                                 rows[j]["temperature_celsius_avg"])

\* The orders in which a caller may hand over the same records.
Reorderings(rows) ==
    {p \in DistinctSeqsUpTo(Range(rows), Len(rows)) : Len(p) = Len(rows)}

\* C18: for any two orders of the same monthly aggregates (station, year
\* and month unique) calculate_yoy_delta returns the same frame: the same
\* delta for each record and the same order of the rows.
C18_StableUnderReordering ==
    stage = "yoy_done" =>
        \A p \in Reorderings(yoy_df.rows) :
            calculate_yoy_delta(Frame(yoy_df.cols, p)) = yoy_out

\* Three records handed over out of order, two of them of one partition,
\* came back with a delta.
C18_Witness ==
    /\ stage = "yoy_done"
    /\ Len(yoy_df.rows) = 3
    /\ yoy_df.rows # SortValues(yoy_df.rows)
    /\ Cardinality(Reorderings(yoy_df.rows)) = 6
    /\ \E i \in 1..Len(yoy_out.value.rows) :
          ~IsNaN(yoy_out.value.rows[i]["temperature_celsius_yoy_avg"])

\* The rows are in the order the aggregator emits: station, year, month.
InAggregatorOrder(rows) ==
    \A i, j \in 1..Len(rows) :
        i < j => KeyLT(<<rows[i]["station_id"], rows[i]["year"], rows[i]["month"]>>,
                       <<rows[j]["station_id"], rows[j]["year"], rows[j]["month"]>>)

\* C19: calculate_yoy_delta leaves its input as it is and returns the same
\* records, avg, min and max unchanged, in the row order in which it
\* received them from the aggregator (station, year, month), with only the
\* delta field added.
C19_KeepsRowOrder ==
    stage = "yoy_done" /\ yoy_out.status = "returned" /\ InAggregatorOrder(yoy_df.rows) =>
        /\ "temperature_celsius_yoy_avg" \notin Range(yoy_df.cols)
        /\ yoy_out.value.cols = Append(yoy_df.cols, "temperature_celsius_yoy_avg")
        /\ Len(yoy_out.value.rows) = Len(yoy_df.rows)
        /\ \A i \in 1..Len(yoy_df.rows) :
              Without(yoy_out.value.rows[i], "temperature_celsius_yoy_avg") = yoy_df.rows[i]

\* What holds instead: the records come back sorted by station, month, year.
C19_ReturnsSortedByMonth ==
    stage = "yoy_done" /\ yoy_out.status = "returned" =>
        /\ yoy_out.value.cols = Append(yoy_df.cols, "temperature_celsius_yoy_avg")
        /\ [i \in 1..Len(yoy_out.value.rows) |->
               Without(yoy_out.value.rows[i], "temperature_celsius_yoy_avg")]
              = SortValues(yoy_df.rows)

-----------------------------------------------------------------------------
(* Claims about the field resolution of transform_weather_data             *)

\* The first name of the list that the frame carries, "" when it carries none.
ResolvedName(first, second) ==
    IF first \in Range(raw_df.cols) THEN first
    ELSE IF second \in Range(raw_df.cols) THEN second ELSE ""

ResolvedTimestamp == ResolvedName("Date/Time (LST)", "Date/Time")

ResolvedTemperature == ResolvedName("Temp (°C)", "Mean Temp (°C)")

\* The call raised when a field has no candidate, and otherwise returned
\* the aggregates of the frame that holds the resolved columns only.
ResolvedAsClaimed ==
    IF ResolvedTimestamp = "" \/ ResolvedTemperature = ""
    THEN transform_out.status = "raised" /\ transform_out.value = EmptyFrame
    ELSE /\ transform_out.status = "returned"
         /\ transform_out.value =
               LET only == SelectCols(raw_df, <<ResolvedTimestamp, ResolvedTemperature, "station_id">>)
               IN  GroupAggregate(WithDateParts(only, ResolvedTimestamp), ResolvedTemperature)

\* C20: the timestamp field resolves to 'Date/Time (LST)' if present, else
\* 'Date/Time'; the temperature field to 'Temp (°C)' if present, else
\* 'Mean Temp (°C)'; with both candidates present only the first is used;
\* with none present transform_weather_data raises and returns no aggregates.
C20_FirstCandidateWins == stage = "transform_done" => ResolvedAsClaimed

\* The same statement for the copy in weather_utils alone.
C20_WeatherUtilsCopy ==
    stage = "transform_done" /\ tf_module = "weather_utils" => ResolvedAsClaimed

\* The copy in weather_utils aggregated a batch with both names of both
\* fields whose readings differ between the names.
C20_BothPresent ==
    /\ stage = "transform_done"
    /\ tf_module = "weather_utils"
    /\ {"Date/Time (LST)", "Date/Time", "Temp (°C)", "Mean Temp (°C)"} \subseteq Range(raw_df.cols)
    /\ transform_out.status = "returned"
    /\ transform_out.value.rows # <<>>

-----------------------------------------------------------------------------
(* Claims about null readings in the aggregator                            *)

\* The temperature column the copy called resolved.
TempColumnUsed == FirstPresent(TempCandidates(tf_module), raw_df.cols)

GroupKey(r) == <<r["station_id"], r["year"], r["month"]>>

\* The rows of group k with a reading, as indices of the caller's frame.
NonNullOf(k) ==
    {i \in 1..Len(raw_df.rows) :
        GroupKey(raw_df.rows[i]) = k /\ ~IsNaN(raw_df.rows[i][TempColumnUsed])}

RECURSIVE ReadingSum(_)
ReadingSum(I) ==
    IF I = {} THEN Rat(0, 1)
    ELSE LET i == CHOOSE j \in I : TRUE
         IN  RatAdd(raw_df.rows[i][TempColumnUsed], ReadingSum(I \ {i}))

\* C21: records with a null temperature never contribute to an aggregate:
\* avg, min and max of each aggregate are those of the non-null readings of
\* its group, and a (station, year, month) group is in the output if and only
\* if it has a non-null reading; a group of null readings only is omitted.
C21_NullReadingsExcluded ==
    stage = "transform_done" /\ transform_out.status = "returned" =>
        LET out == transform_out.value.rows
            t(i) == raw_df.rows[i][TempColumnUsed]
        IN  /\ {GroupKey(out[j]) : j \in 1..Len(out)}
                  = {GroupKey(raw_df.rows[i]) : i \in {n \in 1..Len(raw_df.rows) : ~IsNaN(t(n))}}
            /\ \A j \in 1..Len(out) :
                  LET I == NonNullOf(GroupKey(out[j]))
                  IN  /\ I # {}
                      /\ ~IsNaN(out[j]["temperature_celsius_avg"])
                      /\ RatEq(RatMul(out[j]["temperature_celsius_avg"], Rat(Cardinality(I), 1)),
                               ReadingSum(I))
                      /\ \E i \in I : out[j]["temperature_celsius_min"] = t(i)
                      /\ \A i \in I : RatLE(out[j]["temperature_celsius_min"], t(i))
                      /\ \E i \in I : out[j]["temperature_celsius_max"] = t(i)
                      /\ \A i \in I : RatLE(t(i), out[j]["temperature_celsius_max"])

\* A batch with a null reading in a group that has readings too, aggregated.
C21_Witness ==
    /\ stage = "transform_done"
    /\ transform_out.status = "returned"
    /\ Len(transform_out.value.rows) = 1
    /\ Len(raw_df.rows) >= 3
    /\ \E i \in 1..Len(raw_df.rows) : IsNaN(raw_df.rows[i][TempColumnUsed])
    /\ Cardinality(NonNullOf(GroupKey(transform_out.value.rows[1]))) = 2

\* A batch of null readings only came back without any aggregate.
C21_OnlyNullsOmitted ==
    /\ stage = "transform_done"
    /\ transform_out.status = "returned"
    /\ raw_df.rows # <<>>
    /\ transform_out.value.rows = <<>>

-----------------------------------------------------------------------------
(* Claims about the outlier count of check_data_quality                    *)

\* The temperature column the copy called looks at, "" when the batch has none.
AuditedTemperature ==
    IF q_module = "data_extraction"
    THEN FirstPresent(<<"Temp (°C)">>, q_df.cols)
    ELSE FirstPresent(<<"Temp (°C)", "Mean Temp (°C)">>, q_df.cols)

\* The rows of the batch with a reading.
Measured == {i \in 1..Len(q_df.rows) : ~IsNaN(q_df.rows[i][AuditedTemperature])}

RECURSIVE TotalOf(_)
TotalOf(I) ==
    IF I = {} THEN Rat(0, 1)
    ELSE LET i == CHOOSE j \in I : TRUE
         IN  RatAdd(q_df.rows[i][AuditedTemperature], TotalOf(I \ {i}))

\* n * (x_i - mean), for n readings: n * x_i - total.
Deviation(i) ==
    RatSub(RatMul(Rat(Cardinality(Measured), 1), q_df.rows[i][AuditedTemperature]),
           TotalOf(Measured))

RECURSIVE SquaresOf(_)
SquaresOf(I) ==
    IF I = {} THEN Rat(0, 1)
    ELSE LET i == CHOOSE j \in I : TRUE
         IN  RatAdd(RatMul(Deviation(i), Deviation(i)), SquaresOf(I \ {i}))

\* Reading i lies strictly beyond mean - 3 s or mean + 3 s, s the sample
\* standard deviation: (x - mean)^2 > 9 * sum (x_j - mean)^2 / (n - 1), both
\* sides times n^2 * (n - 1).
StrictlyBeyondThreeSigma(i) ==
    /\ Cardinality(Measured) >= 2
    /\ RatLT(RatMul(Rat(9, 1), SquaresOf(Measured)),
             RatMul(Rat(Cardinality(Measured) - 1, 1), RatMul(Deviation(i), Deviation(i))))

OutliersReported ==
    /\ quality_out.status = "returned"
    /\ "temperature_outliers" \in DOMAIN quality_out.value

C22_OnTheBound ==
    /\ stage = "quality_done"
    /\ OutliersReported
    /\ AuditedTemperature # ""
    /\ Len(q_df.rows) = 13
    /\ q_df.rows[13][AuditedTemperature] = Rat(8, 1)
    /\ quality_out.value["temperature_outliers"] = 0

\* C23: on a batch whose temperature column is entirely null, or holds a
\* single non-null reading, check_data_quality returns without error and
\* reports zero temperature outliers.
C23_NoStatisticsNoOutliers ==
    stage = "quality_done" /\ q_df.rows # <<>> /\ AuditedTemperature # ""
                           /\ Cardinality(Measured) <= 1 =>
        /\ OutliersReported
        /\ quality_out.value["temperature_outliers"] = 0

\* Several rows, all of them without a reading.
C23_Witness ==
    /\ stage = "quality_done"
    /\ Len(q_df.rows) >= 2
    /\ AuditedTemperature # ""
    /\ Measured = {}
    /\ OutliersReported
    /\ quality_out.value["temperature_outliers"] = 0

\* One reading among nulls.
C23_SingleReading ==
    /\ stage = "quality_done"
    /\ Len(q_df.rows) >= 2
    /\ AuditedTemperature # ""
    /\ Cardinality(Measured) = 1
    /\ OutliersReported
    /\ quality_out.value["temperature_outliers"] = 0

C27_EleventhReading ==
    /\ stage = "quality_done"
    /\ OutliersReported
    /\ AuditedTemperature # ""
    /\ Cardinality(Measured) = 11
    /\ quality_out.value["temperature_outliers"] = 1

-----------------------------------------------------------------------------
(* Claims about the caller's batch                                         *)

\* C24: check_data_quality leaves the batch of its caller as it was: the
\* same columns and the same values after the call as before.
C24_CallerBatchUnchanged == [][CheckDataQuality => q_df' = q_df]_vars

-----------------------------------------------------------------------------
(* Claims about the year-over-year query                                   *)

YoyChange == query_results["yoy_temp_change"].rows

\* The rows of weather_data with a defined delta.
WithDelta ==
    {i \in 1..Len(conn_table.rows) : ~IsNull(conn_table.rows[i]["temperature_celsius_yoy_avg"])}

StationMonth(i) ==
    << conn_table.rows[i]["station_name"].text,
       SubSeq(conn_table.rows[i]["date_month"].text, 6, 7) >>

RECURSIVE DeltaSum(_)
DeltaSum(I) ==
    IF I = {} THEN Rat(0, 1)
    ELSE LET i == CHOOSE j \in I : TRUE
         IN  RatAdd(conn_table.rows[i]["temperature_celsius_yoy_avg"].num, DeltaSum(I \ {i}))

\* The nearest multiple of 0.01, halves away from zero.
IsRoundedTo2(r, q) ==
    /\ r[2] \in {1, 2, 4, 5, 10, 20, 25, 50, 100}
    /\ RatLE(RatMul(Rat(200, 1), RatSub(r, q)), Rat(1, 1))
    /\ RatLE(RatMul(Rat(200, 1), RatSub(q, r)), Rat(1, 1))
    /\ RatMul(Rat(200, 1), RatSub(r, q)) = Rat(1, 1) => RatLT(Rat(0, 1), q)
    /\ RatMul(Rat(200, 1), RatSub(q, r)) = Rat(1, 1) => RatLT(q, Rat(0, 1))

\* C25: yoy_temp_change has one row for each (station, month) with at least
\* one defined delta and none for the others; its value is the mean of the
\* defined deltas of that group rounded to 2 decimals; the rows are ordered
\* by station, then month.
C25_YoyChangeOverDefinedDeltas ==
    "yoy_temp_change" \in DOMAIN query_results =>
        /\ { <<YoyChange[j]["station_name"].text, YoyChange[j]["month"].text>> :
                 j \in 1..Len(YoyChange) }
             = {StationMonth(i) : i \in WithDelta}
        /\ \A j \in 1..Len(YoyChange) :
              LET group == {i \in WithDelta :
                               StationMonth(i) = <<YoyChange[j]["station_name"].text,
                                                   YoyChange[j]["month"].text>>}
              IN  /\ YoyChange[j]["avg_yoy_change"].type = "float"
                  /\ IsRoundedTo2(YoyChange[j]["avg_yoy_change"].num,
                                  RatDivInt(DeltaSum(group), Cardinality(group)))
        /\ \A j \in 1..(Len(YoyChange) - 1) :
              \/ TextLT(YoyChange[j]["station_name"].text, YoyChange[j + 1]["station_name"].text)
              \/ /\ YoyChange[j]["station_name"].text = YoyChange[j + 1]["station_name"].text
                 /\ TextLT(YoyChange[j]["month"].text, YoyChange[j + 1]["month"].text)

\* A table with a group of several defined deltas and undefined ones, a
\* group without a defined delta, and two stations in the result.
C25_Witness ==
    /\ "yoy_temp_change" \in DOMAIN query_results
    /\ Len(YoyChange) >= 3
    /\ YoyChange[1]["station_name"].text # YoyChange[Len(YoyChange)]["station_name"].text
    /\ \E i \in WithDelta, k \in WithDelta, u \in 1..Len(conn_table.rows) :
          /\ i # k
          /\ u \notin WithDelta
          /\ StationMonth(i) = StationMonth(k)
          /\ StationMonth(u) = StationMonth(i)
          /\ conn_table.rows[i]["temperature_celsius_yoy_avg"]
                # conn_table.rows[k]["temperature_celsius_yoy_avg"]
    /\ \E u \in 1..Len(conn_table.rows) :
          \A i \in WithDelta : StationMonth(i) # StationMonth(u)

-----------------------------------------------------------------------------
(* Claims about the pairing of the join                                    *)

Aggregates ==
    { "date_month", "temperature_celsius_avg", "temperature_celsius_min",
      "temperature_celsius_max", "temperature_celsius_yoy_avg" }

\* C26: for M monthly records and N dimension rows the join returns M * N
\* rows, none and no error for an empty dimension table: the row of record i
\* and dimension row j carries the station name of j and the aggregates of i,
\* whatever the station of i is.
C26_EveryRecordWithEveryDimensionRow ==
    stage = "join_done" /\ ~(\E c \in Range(final_columns) : AbsentAfterJoin(c)) =>
        LET M == Len(weather_df.rows)
            N == Len(geonames_df.rows)
        IN  /\ join_out.status = "returned"
            /\ Len(join_out.value.rows) = M * N
            /\ \A i \in 1..M, j \in 1..N :
                  LET row == join_out.value.rows[(i - 1) * N + j]
                  IN  /\ row["station_name"] = geonames_df.rows[j]["station_name"]
                      /\ row["climate_id"] = geonames_df.rows[j]["climate_id"]
                      /\ \A c \in Aggregates : row[c] = weather_df.rows[i][c]

\* Two records of different stations against two dimension rows of
\* different stations: four rows.
C26_Witness ==
    /\ stage = "join_done"
    /\ join_out.status = "returned"
    /\ Len(weather_df.rows) = 2
    /\ Len(geonames_df.rows) = 2
    /\ weather_df.rows[1]["station_id"] # weather_df.rows[2]["station_id"]
    /\ geonames_df.rows[1]["climate_id"] # geonames_df.rows[2]["climate_id"]
    /\ Len(join_out.value.rows) = 4

\* Records against an empty dimension table: returned, without rows.
C26_EmptyDimension ==
    /\ stage = "join_done"
    /\ Len(weather_df.rows) >= 1
    /\ geonames_df.rows = <<>>
    /\ join_out.status = "returned"
    /\ join_out.value.rows = <<>>

-----------------------------------------------------------------------------
(* Claims about the gate of the orchestrated run                           *)

\* C29: when the gating task check_data_quality has run after the sensor
\* check_extractions_completed succeeded, it has selected run_transformation
\* and skip_transformation is skipped; skip_transformation is selected only
\* when no quality record is stored, and then the sensor has not succeeded.
C29_GateFollowsSensor ==
    stage = "run" /\ run_entry = "dag" =>
        /\ task_state["check_data_quality"] = "success"
              /\ task_state["check_extractions_completed"] = "success" =>
                 /\ branch_choice = "run_transformation"
                 /\ task_state["skip_transformation"] = "skipped"
                 /\ task_state["run_transformation"] # "skipped"
        /\ branch_choice = "skip_transformation" =>
              /\ xcom_quality = {}
              /\ task_state["check_extractions_completed"] # "success"

\* The gate has run after a successful sensor.
C29_Witness ==
    /\ stage = "run" /\ run_entry = "dag"
    /\ task_state["check_extractions_completed"] = "success"
    /\ task_state["check_data_quality"] = "success"
    /\ xcom_quality # {}
    /\ branch_choice = "run_transformation"

\* In a run the gate never selects skip_transformation.
C29_SkipNeverSelected == branch_choice # "skip_transformation"

-----------------------------------------------------------------------------
(* Claims about the analysis task and the save task after it               *)

\* The analysis task has run.
Analysed == stage = "save" /\ analysis_out.status # "none"

\* C30: run_analysis_wrapper propagates no failure: an error of run_analysis
\* comes back as the mapping {'error': message}, a result as the five
\* query results, so the task has a return value in every case; the save
\* task after it returns with the artifact written, which holds the five
\* query results or the single key 'error'.
C30_AnalysisNeverFails ==
    /\ Analysed =>
          /\ xcom_analysis.kind = "dict"
          /\ analysis_out.status = "raised" =>
                /\ DOMAIN xcom_analysis.items = {"error"}
                /\ xcom_analysis.items["error"].data = analysis_out.error
          /\ analysis_out.status = "returned" => DOMAIN xcom_analysis.items = ResultNames
    /\ stage = "save" /\ save_args.entry = "save_analysis_results_task" =>
          /\ Analysed
          /\ save_out = Returned(PathJoin(OUTPUT_DIR, "analysis_results.json"))
          /\ save_out.value \in DOMAIN fs_files
          /\ fs_files[save_out.value].complete
          /\ DOMAIN fs_files[save_out.value].data
                = (IF analysis_out.status = "raised" THEN {"error"} ELSE ResultNames)

\* The final dataset was missing, the output directory too: the artifact
\* holds the error.
C30_Witness ==
    /\ stage = "save"
    /\ save_args.entry = "save_analysis_results_task"
    /\ save_calls = 1
    /\ analysis_out = Raised("Input file not found: output/weather_station_monthly.csv")
    /\ save_out.status = "returned"
    /\ save_out.value \in DOMAIN fs_files
    /\ fs_files[save_out.value].data
          = [error |-> "Input file not found: output/weather_station_monthly.csv"]

\* The artifact holds the five results.
C30_FiveResults ==
    /\ stage = "save"
    /\ save_args.entry = "save_analysis_results_task"
    /\ analysis_out.status = "returned"
    /\ save_out.status = "returned"
    /\ save_out.value \in DOMAIN fs_files
    /\ DOMAIN fs_files[save_out.value].data = ResultNames

-----------------------------------------------------------------------------
(* Claims about the grouping of the aggregator in the pipeline             *)

\* The aggregator has returned in the current run of the pipeline.
Aggregated ==
    /\ stage = "pipeline"
    /\ pipe_pc = "calculate_yoy_delta"
    /\ pipe_step.status = "returned"

\* The readings on disk that have a temperature: <<file, line>>.
ReadingsOnDisk ==
    {p \in UNION {{f} \X (1..Len(raw_dir[f].lines)) : f \in ValidBatches(raw_dir)} :
        ~IsNaN(TaggedRecords(raw_dir, p[1])[p[2]]["Temp (°C)"])}

\* Station of the file name, year and month of the timestamp.
StampKey(p) ==
    LET record == TaggedRecords(raw_dir, p[1])[p[2]]
    IN  << record["station_id"],
           ParseInt(SubSeq(record["Date/Time (LST)"], 1, 4)),
           ParseInt(SubSeq(record["Date/Time (LST)"], 6, 7)) >>

AggregateKey(r) == <<r["station_id"], r["year"], r["month"]>>

RECURSIVE DiskSum(_)
DiskSum(P) ==
    IF P = {} THEN Rat(0, 1)
    ELSE LET p == CHOOSE q \in P : TRUE
         IN  RatAdd(TaggedRecords(raw_dir, p[1])[p[2]]["Temp (°C)"], DiskSum(P \ {p}))

\* C28: the aggregator output has at most one record per (station_id, year,
\* month), year and month being those of the timestamps of the readings and
\* not the year of the batch file name; the readings of a station and month
\* are aggregated together whatever batch file they came in.
C28_OneRecordPerStationMonth ==
    Aggregated =>
        LET out == pipe_step.value.rows
        IN  /\ \A i, j \in 1..Len(out) : AggregateKey(out[i]) = AggregateKey(out[j]) => i = j
            /\ {AggregateKey(out[i]) : i \in 1..Len(out)} = {StampKey(p) : p \in ReadingsOnDisk}
            /\ \A i \in 1..Len(out) :
                  LET group == {p \in ReadingsOnDisk : StampKey(p) = AggregateKey(out[i])}
                  IN  RatMul(out[i]["temperature_celsius_avg"], Rat(Cardinality(group), 1))
                          = DiskSum(group)

\* A month aggregated over two batch files, and a record of a year that is
\* not the year of the file its reading came in.
C28_Witness ==
    /\ Aggregated
    /\ \E i \in 1..Len(pipe_step.value.rows) :
          \E p, q \in ReadingsOnDisk :
             /\ p[1] # q[1]
             /\ StampKey(p) = AggregateKey(pipe_step.value.rows[i])
             /\ StampKey(q) = AggregateKey(pipe_step.value.rows[i])
    /\ \E i \in 1..Len(pipe_step.value.rows) :
          \A p \in ReadingsOnDisk :
             StampKey(p) = AggregateKey(pipe_step.value.rows[i]) =>
                ParseInt(TaggedRecords(raw_dir, p[1])[p[2]]["data_year"])
                    # pipe_step.value.rows[i]["year"]

====
